---- MODULE Spec2Model ----
(***************************************************************************)
(* Colorpicker batch generator (src/modal_functions/colorpicker_batch.py): *)
(* the task store, the batch store and the object store as state, and      *)
(* populate_tasks, run_batch_processing, ImageGenerator.process_batch and  *)
(* generate_single_image as step-by-step state machines.  Every call to    *)
(* the task/batch store or to the object store is one step, and may raise. *)
(***************************************************************************)
EXTENDS Integers, Sequences, FiniteSets, TLC

(***************************************************************************)
(* Bounds of the model.                                                    *)
(***************************************************************************)
\* page_size of populate_tasks (1000 in the source, line 758), scaled down
PageSize == 2
\* bulk-insert chunk of populate_tasks (500 in the source, line 798), scaled down
InsertChunk == 2
\* chunk of the batch_id tagging (100 in the source, line 913), scaled down
TagChunk == 2
\* batch rows ever created (one per run_batch_processing invocation)
MaxBatches == 2
\* dispatch rounds of one run_batch_processing invocation
MaxRounds == 2
\* faults of the environment over a whole behaviour (calls to the task store
\* or the batch store that raise, worker invocations that are killed): in the
\* populate + run cycles, in the cycles with a worker killed for good, with
\* two runs at a time, and with requests for single images
MaxFaults == 2
KillFaults == 3
ConcFaults == 2
DemandFaults == 1

\* dispatch rounds of one run when two runs are active at a time
ConcRounds == 1

\* calls of generate_single_image over a whole behaviour
MaxRequests == 1
\* calls of generate_single_image when nothing else runs, and the calls to
\* the stores that fail within one of them
SingleRequests == 2
MaxEnvFaults == 2
\* the largest batch_size and max_parallel of a split taken alone
MaxSplit == 3
\* a width a request may ask for, other than the default (item.get('width', 720))
OtherWidth == 360
\* the largest batch_size, max_parallel and max_tasks a run is started with
MaxBatchSize == 2
MaxParallel == 2
MaxCap == 1

(***************************************************************************)
(* Program constants.                                                      *)
(***************************************************************************)
\* .lt('attempts', 3): lines 750 and 901
MaxAttempts == 3
\* 'width': 720 of a populated row (line 790)
DefaultWidth == 720
\* retries=2 of the ImageGenerator class (line 113)
Retries == 2

NULL == "null"

(***************************************************************************)
(* Strings.  Identifiers are TLA+ strings in the state; Spell gives the    *)
(* characters of each, for the functions that look inside a string.        *)
(***************************************************************************)
Spell ==
  [ lx1234    |-> <<"l","x","1","2","3","4">>,
    lx2665    |-> <<"l","x","2","6","6","5">>,
    navy_blue |-> <<"n","a","v","y","_","b","l","u","e">>,
    none      |-> <<"n","o","n","e">>,
    amber     |-> <<"a","m","b","e","r">>,
    lx2120    |-> <<"l","x","2","1","2","0">>,
    lx2665b   |-> <<"l","x","2","6","6","5","b">>,
    Lx1234    |-> <<"L","x","1","2","3","4">>,
    red       |-> <<"r","e","d">> ]

Chars(s) == Spell[s]

LowerChar(c) ==
  CASE c = "L" -> "l" [] c = "X" -> "x" [] c = "B" -> "b" [] c = "V" -> "v"
    [] OTHER -> c

\* str.lower()
Lower(s) == [i \in 1..Len(s) |-> LowerChar(s[i])]

\* needle in hay
Contains(hay, needle) ==
  \E i \in 1..(Len(hay) - Len(needle) + 1) :
     SubSeq(hay, i, i + Len(needle) - 1) = needle

\* COLORS / UI_COLORS / ACCENT_COLORS / LED_COLORS, restricted to a palette
\* of one UI colour and one LED colour
UI_COLORS == <<"navy_blue">>
LED_COLORS == <<"amber">>
ACCENT_COLORS == UI_COLORS \o <<"none">>

MULTICOLOR_LEDS ==
  << <<"2","1","8","0">>, <<"2","3","3","0">>, <<"2","3","5","0">>,
     <<"2","3","7","0">>, <<"2","5","5","0">>, <<"2","5","5","5">>,
     <<"2","5","5","6">>, <<"2","5","7","0">>, <<"2","5","7","5">>,
     <<"2","5","7","6">>, <<"2","6","5","5">>, <<"2","6","6","5">>,
     <<"2","7","7","0">>, <<"8","3","5","0">>, <<"8","6","5","0">>,
     <<"8","7","5","0">>, <<"8","8","5","0">>, <<"l","x","2","*">>,
     <<"l","x","8","4","4","0">> >>

FORCE_SINGLE_COLOR_LED == << <<"l","x","2","1","2","0">> >>

\* re.search(pattern.replace('*', '.+'), model_id, re.IGNORECASE) for a
\* pattern of literal characters and one '*'
StarSearch(pattern, model_id) ==
  LET star == CHOOSE k \in 1..Len(pattern) : pattern[k] = "*"
      pre  == Lower(SubSeq(pattern, 1, star - 1))
      post == Lower(SubSeq(pattern, star + 1, Len(pattern)))
      m    == Lower(model_id)
  IN \E i \in 1..Len(m), n \in 1..Len(m) :
        /\ i + Len(pre) + n + Len(post) - 1 <= Len(m)
        /\ SubSeq(m, i, i + Len(pre) - 1) = pre
        /\ SubSeq(m, i + Len(pre) + n, i + Len(pre) + n + Len(post) - 1) = post

\* an override that looks for its tokens as they are written
is_multicolor_led_exact(model_id) ==
  IF \E k \in 1..Len(FORCE_SINGLE_COLOR_LED) :
        Contains(model_id, FORCE_SINGLE_COLOR_LED[k])
  THEN FALSE
  ELSE \E k \in 1..Len(MULTICOLOR_LEDS) :
         LET pattern == MULTICOLOR_LEDS[k] IN
         IF \E j \in 1..Len(pattern) : pattern[j] = "*"
         THEN StarSearch(pattern, model_id)
         ELSE Contains(model_id, pattern)

is_multicolor_led(model_id) ==
  LET model_lower == Lower(model_id) IN
  IF \E k \in 1..Len(FORCE_SINGLE_COLOR_LED) :
        Contains(model_lower, Lower(FORCE_SINGLE_COLOR_LED[k]))
  THEN FALSE
  ELSE \E k \in 1..Len(MULTICOLOR_LEDS) :
         LET pattern == MULTICOLOR_LEDS[k] IN
         IF \E j \in 1..Len(pattern) : pattern[j] = "*"
         THEN StarSearch(pattern, model_id)
         ELSE Contains(model_id, pattern)

(***************************************************************************)
(* The model ids of the catalogue (discover_models lists them, distinct),  *)
(* and the model lists a populate_tasks call may be given.                 *)
(***************************************************************************)
Models == {"lx1234", "lx2665"}

ModelLists ==
  {<<>>} \cup {<<m>> : m \in Models}
         \cup {<<m, n>> : <<m, n>> \in {x \in Models \X Models : x[1] # x[2]}}

\* the model lists of the populate + run cycles: one model, two task rows
CycleLists == {<<"lx1234">>}

Range(s) == {s[i] : i \in 1..Len(s)}

PopIds == {1, 2}
OrchIds == {1, 2}
Slots == 1..MaxParallel

VARIABLES
  tasks,        \* table colorpicker_tasks: the rows in insertion order (row id = index)
  models_tbl,   \* table colorpicker_models: the model ids upserted, with their flag
  batches,      \* table colorpicker_batches: the rows in insertion order (row id = index)
  objects,      \* the bucket: object key -> body
  pop,          \* populate_tasks invocations
  orch,         \* run_batch_processing invocations
  wrk,          \* process_batch invocations: wrk[o][k] is sub-batch k of run o
  progress,     \* table colorpicker_generation_progress: the rows in insertion order
  reply,        \* what the calls of generate_single_image gave back, in order
  marker,       \* the file /cache/masks_synced_v3 exists
  calls,        \* history: the requests to generate_single_image, with what the
                \* environment did to each
  fn,           \* a pure function at work: its name, its argument, its result
  budget,       \* faults the environment may still inject
  rounds,       \* dispatch rounds a run may make
  requests,     \* calls of generate_single_image that may be made
  lastPop,      \* history: the last populate_tasks run that returned
  lost          \* history: a task left behind by a killed worker, and what came after

vars == <<tasks, models_tbl, batches, objects, pop, orch, wrk, progress, reply,
          marker, calls, fn, budget, rounds, requests, lastPop, lost>>

single == <<progress, reply, marker, calls, fn, rounds, requests>>

popOnly == <<batches, objects, orch, wrk, lost, progress, reply, marker, calls, fn,
            rounds, requests>>

\* a call to a store raises (or a worker is killed) / does not raise
Raises == budget > 0 /\ budget' = budget - 1
Succeeds == budget' = budget

(***************************************************************************)
(* Task rows.                                                              *)
(***************************************************************************)
\* the row populate_tasks inserts (lines 785-792); attempts, error_message,
\* s3_key and batch_id take the table's defaults
NewRow(model, primary, accent, led) ==
  [ model |-> model, primary_color |-> primary, accent_color |-> accent,
    led_color |-> led, width |-> DefaultWidth, status |-> "pending",
    attempts |-> 0, error_message |-> NULL, s3_key |-> NULL, batch_id |-> 0 ]

\* the tuple populate_tasks compares (line 769, line 783)
Combo(r) == <<r.model, r.primary_color, r.accent_color, r.led_color>>

\* the identity of a task row
Identity(r) == <<r.model, r.primary_color, r.accent_color, r.led_color, r.width>>

Identities(rows) == {Identity(rows[i]) : i \in 1..Len(rows)}

(***************************************************************************)
(* populate_tasks                                                          *)
(***************************************************************************)
IdlePop ==
  [ pc |-> "idle", models |-> <<>>, reset_failed |-> FALSE, existing |-> {},
    offset |-> 0, new_tasks |-> <<>>, i |-> 0, inserted |-> 0,
    lost |-> FALSE, ret |-> 0, prev |-> [valid |-> FALSE, models |-> {}, lost |-> FALSE],
    before |-> {} ]

\* the rows of one model, in the order of the three inner loops (lines 780-782)
RECURSIVE ColorRows(_, _, _, _)
ColorRows(model, p, a, l) ==
  IF p > Len(UI_COLORS) THEN <<>>
  ELSE IF a > Len(ACCENT_COLORS) THEN ColorRows(model, p + 1, 1, 1)
  ELSE IF l > Len(LED_COLORS) THEN ColorRows(model, p, a + 1, 1)
  ELSE <<NewRow(model, UI_COLORS[p], ACCENT_COLORS[a], LED_COLORS[l])>>
         \o ColorRows(model, p, a, l + 1)

RECURSIVE AllRows(_)
AllRows(models) ==
  IF models = <<>> THEN <<>>
  ELSE ColorRows(Head(models), 1, 1, 1) \o AllRows(Tail(models))

\* a mutant of NewTasks: the comparison with the existing combinations is lost
NewTasksNoSkip(models, existing) == AllRows(models)

\* new_tasks: every combination not in existing (lines 778-792)
NewTasks(models, existing) ==
  SelectSeq(AllRows(models), LAMBDA r : Combo(r) \notin existing)

\* a mutant of ResetFailed: the attempts filter is lost
ResetFailedAll(rows) ==
  [i \in 1..Len(rows) |->
     IF rows[i].status = "failed"
     THEN [rows[i] EXCEPT !.status = "pending", !.error_message = NULL]
     ELSE rows[i]]

\* update({status: pending, error_message: None}).eq(status, failed).lt(attempts, 3)
ResetFailed(rows) ==
  [i \in 1..Len(rows) |->
     IF rows[i].status = "failed" /\ rows[i].attempts < MaxAttempts
     THEN [rows[i] EXCEPT !.status = "pending", !.error_message = NULL]
     ELSE rows[i]]

Min(a, b) == IF a < b THEN a ELSE b

\* a mutant of LastPage: the first page is taken for the last
LastPageAlways(page) == TRUE

\* the two ways out of the paging loop: an empty page (line 766) and a short
\* page (line 772)
LastPage(page) == page = <<>> \/ Len(page) < PageSize

PopFree(p) == pop[p].pc \in {"idle", "done", "raised"}

\* line 729: the call, with its arguments
PopStart(p, ms, rf) ==
  /\ PopFree(p)
  /\ pop' = [pop EXCEPT ![p] =
       [IdlePop EXCEPT !.pc = IF rf THEN "reset" ELSE "fetch",
                       !.models = ms, !.reset_failed = rf,
                       !.prev = lastPop, !.before = Identities(tasks)]]
  /\ UNCHANGED <<tasks, models_tbl, lastPop, budget>>
  /\ UNCHANGED popOnly

\* lines 746-751: the reset; a store error is not caught and ends the call
PopReset(p) ==
  /\ pop[p].pc = "reset"
  /\ \/ /\ tasks' = ResetFailed(tasks)
        /\ pop' = [pop EXCEPT ![p].pc = "fetch"]
        /\ lost' = IF lost.stage = 1 THEN [lost EXCEPT !.stage = 2] ELSE lost
        /\ Succeeds
     \/ /\ pop' = [pop EXCEPT ![p] = [IdlePop EXCEPT !.pc = "raised"]]
        /\ Raises
        /\ UNCHANGED <<tasks, lost>>
  /\ UNCHANGED <<models_tbl, lastPop, batches, objects, orch, wrk>>
  /\ UNCHANGED single

\* lines 760-773: one page of the existing rows; after the last page the
\* combinations to insert are computed (lines 778-792)
PopFetchPage(p) ==
  /\ pop[p].pc = "fetch"
  /\ \/ LET q     == pop[p]
            page  == SubSeq(tasks, q.offset + 1, Min(q.offset + PageSize, Len(tasks)))
            seen  == q.existing \cup {Combo(page[k]) : k \in 1..Len(page)}
            last  == LastPage(page)
        IN /\ pop' = [pop EXCEPT ![p] =
                        IF last
                        THEN [q EXCEPT !.pc = "insert", !.existing = seen,
                                       !.new_tasks = NewTasks(q.models, seen)]
                        ELSE [q EXCEPT !.existing = seen,
                                       !.offset = q.offset + PageSize]]
           /\ Succeeds
     \/ /\ pop' = [pop EXCEPT ![p] = [IdlePop EXCEPT !.pc = "raised"]]
        /\ Raises
  /\ UNCHANGED <<tasks, models_tbl, lastPop>>
  /\ UNCHANGED popOnly

\* lines 797-805: one chunk of the bulk insert; an error is printed and the
\* loop goes on
PopInsertChunk(p) ==
  /\ pop[p].pc = "insert"
  /\ pop[p].i < Len(pop[p].new_tasks)
  /\ LET q     == pop[p]
         batch == SubSeq(q.new_tasks, q.i + 1, Min(q.i + InsertChunk, Len(q.new_tasks)))
     IN \/ /\ tasks' = tasks \o batch
           /\ pop' = [pop EXCEPT ![p].i = q.i + InsertChunk,
                                 ![p].inserted = q.inserted + Len(batch)]
           /\ Succeeds
        \/ /\ pop' = [pop EXCEPT ![p].i = q.i + InsertChunk, ![p].lost = TRUE]
           /\ Raises
           /\ UNCHANGED tasks
  /\ UNCHANGED <<models_tbl, lastPop>>
  /\ UNCHANGED popOnly

\* lines 809-821: the model stats (each upsert may fail, which is printed),
\* and the return of len(new_tasks)
PopStats(p) ==
  /\ pop[p].pc = "insert"
  /\ pop[p].i >= Len(pop[p].new_tasks)
  /\ \E ok \in SUBSET Range(pop[p].models) :
        /\ models_tbl' = [m \in DOMAIN models_tbl \cup ok |->
                            IF m \in ok THEN is_multicolor_led(Chars(m))
                            ELSE models_tbl[m]]
        /\ IF ok = Range(pop[p].models) THEN Succeeds ELSE Raises
  /\ pop' = [pop EXCEPT ![p] = [IdlePop EXCEPT !.pc = "done",
                                               !.ret = Len(pop[p].new_tasks)]]
  /\ lastPop' = [valid |-> TRUE, models |-> Range(pop[p].models), lost |-> pop[p].lost]
  /\ UNCHANGED tasks
  /\ UNCHANGED popOnly

(***************************************************************************)
(* The object key and the image.                                           *)
(***************************************************************************)
\* f"colorpicker-generated/{model}/{primary}-{accent}-{leds}.png" (lines 381, 509);
\* the two literal ends are one symbol each
S3Key(model, primary, accent, leds) ==
  <<"colorpicker-generated/">> \o Chars(model) \o <<"/">> \o Chars(primary)
     \o <<"-">> \o Chars(accent) \o <<"-">> \o Chars(leds) \o <<".png">>

\* what generate_image renders: the colour of each colorized layer and the
\* width of the result (lines 254-306); the pixels of the masks are left out
ImageBytes(model, primary, accent, leds, width) ==
  [ model |-> model, face |-> primary,
    striping |-> IF accent \in {"none", "n/a"} THEN primary ELSE accent,
    led |-> IF is_multicolor_led(Chars(model)) THEN "passthrough" ELSE leds,
    width |-> width ]

Put(store, key, body) ==
  [k \in DOMAIN store \cup {key} |-> IF k = key THEN body ELSE store[k]]

(***************************************************************************)
(* ImageGenerator.process_batch: one invocation per sub-batch.             *)
(***************************************************************************)
IdleWrk ==
  [ pc |-> "idle", tasks |-> <<>>, idx |-> 0, success |-> 0, failed |-> 0,
    cur_attempts |-> 0, image |-> NULL, error |-> NULL, retries |-> 0,
    tried |-> <<>> ]

\* the invocation of process_batch(tasks), and Modal's retry of it
StartWrk(ids, retries) ==
  [IdleWrk EXCEPT !.pc = "mark_read", !.tasks = ids, !.idx = 1, !.retries = retries]

Running(w) == w.pc \in {"mark_read", "mark_write", "render", "put", "complete", "fail"}

\* a mutant of AfterTask: a failed task ends the loop
AfterTaskAbort(w, ok) ==
  IF ok
  THEN [w EXCEPT !.pc = IF w.idx + 1 > Len(w.tasks) THEN "done" ELSE "mark_read",
                 !.idx = w.idx + 1, !.success = w.success + 1,
                 !.cur_attempts = 0, !.image = NULL, !.error = NULL]
  ELSE [w EXCEPT !.pc = "done", !.idx = w.idx + 1, !.failed = w.failed + 1,
                 !.cur_attempts = 0, !.image = NULL, !.error = NULL]

\* the end of one pass of the loop (lines 376-378, 400, 404-405): the count,
\* then the next task or the return of results
AfterTask(w, ok) ==
  [w EXCEPT !.pc = IF w.idx + 1 > Len(w.tasks) THEN "done" ELSE "mark_read",
            !.idx = w.idx + 1,
            !.success = IF ok THEN w.success + 1 ELSE w.success,
            !.failed = IF ok THEN w.failed ELSE w.failed + 1,
            !.cur_attempts = 0, !.image = NULL, !.error = NULL]

\* history: a status write of task id, made for run o, has reached the store
Recorded(o, id) == [orch EXCEPT ![o].recorded = @ \cup {id}]

\* update_task_status(task_id, 'processing'), lines 324-325: the read of the
\* attempts; an error is caught at line 347 and nothing is written
WMarkRead(o, k) ==
  LET w == wrk[o][k] IN
  /\ w.pc = "mark_read"
  /\ \/ /\ wrk' = [wrk EXCEPT ![o][k] =
                     [w EXCEPT !.pc = "mark_write",
                               !.cur_attempts = tasks[w.tasks[w.idx]].attempts,
                               !.tried = Append(w.tried, w.tasks[w.idx])]]
        /\ Succeeds
     \/ /\ wrk' = [wrk EXCEPT ![o][k] =
                     [w EXCEPT !.pc = "render",
                               !.tried = Append(w.tried, w.tasks[w.idx])]]
        /\ Raises
  /\ UNCHANGED <<tasks, models_tbl, batches, objects, pop, orch, lastPop, lost>>
  /\ UNCHANGED single

\* a mutant of MarkProcessing: the attempts are not raised
MarkProcessingNoCount(row, current_attempts) ==
  [row EXCEPT !.status = "processing"]

\* update_data of status 'processing' (lines 327-335)
MarkProcessing(row, current_attempts) ==
  [row EXCEPT !.status = "processing", !.attempts = current_attempts + 1]

\* update_task_status(task_id, 'processing'), line 346: the write
WMarkWrite(o, k) ==
  LET w == wrk[o][k]
      id == w.tasks[w.idx]
  IN
  /\ w.pc = "mark_write"
  /\ \/ /\ tasks' = [tasks EXCEPT ![id] = MarkProcessing(tasks[id], w.cur_attempts)]
        /\ orch' = Recorded(o, id)
        /\ Succeeds
     \/ UNCHANGED <<tasks, orch>> /\ Raises
  /\ wrk' = [wrk EXCEPT ![o][k].pc = "render"]
  /\ UNCHANGED <<models_tbl, batches, objects, pop, lastPop, lost>>
  /\ UNCHANGED single

\* generate_image (lines 366-378): the bytes, None when no layer resolves,
\* or an exception
WRender(o, k) ==
  LET w == wrk[o][k]
      t == tasks[w.tasks[w.idx]]
  IN
  /\ w.pc = "render"
  /\ \/ wrk' = [wrk EXCEPT ![o][k] =
                  [w EXCEPT !.pc = "put",
                            !.image = ImageBytes(t.model, t.primary_color,
                                                 t.accent_color, t.led_color, t.width)]]
     \/ wrk' = [wrk EXCEPT ![o][k] =
                  [w EXCEPT !.pc = "fail", !.error = "No layers found for model"]]
     \/ wrk' = [wrk EXCEPT ![o][k] = [w EXCEPT !.pc = "fail", !.error = "exception"]]
  /\ UNCHANGED <<tasks, models_tbl, batches, objects, pop, orch, lastPop, lost,
                 budget>>
  /\ UNCHANGED single

\* put_object (lines 381-390)
WPut(o, k) ==
  LET w == wrk[o][k]
      t == tasks[w.tasks[w.idx]]
  IN
  /\ w.pc = "put"
  /\ \/ /\ objects' = Put(objects,
                          S3Key(t.model, t.primary_color, t.accent_color, t.led_color),
                          w.image)
        /\ wrk' = [wrk EXCEPT ![o][k].pc = "complete"]
     \/ /\ wrk' = [wrk EXCEPT ![o][k] = [w EXCEPT !.pc = "fail", !.error = "exception"]]
        /\ UNCHANGED objects
  /\ UNCHANGED <<tasks, models_tbl, batches, pop, orch, lastPop, lost, budget>>
  /\ UNCHANGED single

\* a completed row without its key
MarkCompletedNoKey(row, s3_key) == [row EXCEPT !.status = "completed"]

\* update_data of status 'completed' (lines 337-341)
MarkCompleted(row, s3_key) ==
  [row EXCEPT !.status = "completed", !.s3_key = s3_key, !.error_message = NULL]

\* a failed row without its message
MarkFailedNoMessage(row, error) == [row EXCEPT !.status = "failed"]

\* update_data of status 'failed' (lines 343-344)
MarkFailed(row, error) ==
  [row EXCEPT !.status = "failed", !.error_message = error]

\* update_task_status(task_id, 'completed', ...) and the count (lines 393-400);
\* an error of the read or of the write is caught and nothing is written
WCompleted(o, k) ==
  LET w == wrk[o][k]
      id == w.tasks[w.idx]
      t == tasks[id]
  IN
  /\ w.pc = "complete"
  /\ \/ /\ tasks' = [tasks EXCEPT ![id] =
                       MarkCompleted(t, S3Key(t.model, t.primary_color,
                                              t.accent_color, t.led_color))]
        /\ orch' = Recorded(o, id)
        /\ Succeeds
     \/ UNCHANGED <<tasks, orch>> /\ Raises
  /\ wrk' = [wrk EXCEPT ![o][k] = AfterTask(w, TRUE)]
  /\ UNCHANGED <<models_tbl, batches, objects, pop, lastPop, lost>>
  /\ UNCHANGED single

\* update_task_status(task_id, 'failed', error=...) and the count
\* (lines 375-378 and 403-405)
WFailed(o, k) ==
  LET w == wrk[o][k]
      id == w.tasks[w.idx]
  IN
  /\ w.pc = "fail"
  /\ \/ /\ tasks' = [tasks EXCEPT ![id] = MarkFailed(tasks[id], w.error)]
        /\ orch' = Recorded(o, id)
        /\ Succeeds
     \/ UNCHANGED <<tasks, orch>> /\ Raises
  /\ wrk' = [wrk EXCEPT ![o][k] = AfterTask(w, FALSE)]
  /\ UNCHANGED <<models_tbl, batches, objects, pop, lastPop, lost>>
  /\ UNCHANGED single

\* the invocation is killed (timeout=3600 or a crash of the container);
\* Modal runs the input again, retries=2 times (line 113), then fails it
WDie(o, k) ==
  LET w == wrk[o][k]
      final == w.retries >= Retries
      id == w.tasks[w.idx]
  IN
  /\ Running(w)
  /\ Raises
  /\ wrk' = [wrk EXCEPT ![o][k] =
               IF final THEN [w EXCEPT !.pc = "failed"]
               ELSE StartWrk(w.tasks, w.retries + 1)]
  /\ lost' = IF /\ final
                /\ lost.stage = 0
                /\ w.pc \in {"render", "put", "complete", "fail"}
                /\ tasks[id].status = "processing"
                /\ tasks[id].attempts < MaxAttempts
             THEN [stage |-> 1, task |-> id, again |-> FALSE]
             ELSE lost
  /\ UNCHANGED <<tasks, models_tbl, batches, objects, pop, orch, lastPop>>
  /\ UNCHANGED single

(***************************************************************************)
(* run_batch_processing                                                    *)
(***************************************************************************)
\* an optional integer: None, or Some(n)
None == <<>>
Some(n) == <<n>>

\* the truth value of an optional integer (`if max_tasks:`, line 895)
Truthy(x) == x # None /\ x[1] # 0

IdleOrch ==
  [ pc |-> "idle", batch_size |-> 0, max_parallel |-> 0, max_tasks |-> None,
    batch_id |-> 0, total_success |-> 0, total_failed |-> 0, iteration |-> 0,
    tasks |-> <<>>, handed |-> {}, rehanded |-> {}, recorded |-> {}, exit |-> "none",
    closed |-> FALSE, afterReset |-> FALSE, dispatched |-> 0 ]

\* a mutant of NewBatch: the row starts as completed
NewBatchDone ==
  [ status |-> "completed", total_tasks |-> 0, completed_tasks |-> 0, failed_tasks |-> 0 ]

\* the row of lines 874-878
NewBatch ==
  [ status |-> "running", total_tasks |-> 0, completed_tasks |-> 0, failed_tasks |-> 0 ]

OrchFree(o) == orch[o].pc \in {"idle", "returned", "raised"}

\* the invocation has ended: what is kept of it is how it ended
Ended(q, pc, closed) ==
  [IdleOrch EXCEPT !.pc = pc, !.batch_id = q.batch_id, !.exit = q.exit,
                   !.closed = closed, !.rehanded = q.rehanded]

RECURSIVE SortedSeq(_)
SortedSeq(S) ==
  IF S = {} THEN <<>>
  ELSE LET m == CHOOSE x \in S : \A y \in S : x <= y
       IN <<m>> \o SortedSeq(S \ {m})

\* a split that keeps the full chunks only
ChunksWhole(seq, size) ==
  [k \in 1..(Len(seq) \div size) |-> SubSeq(seq, (k - 1) * size + 1, k * size)]

\* [seq[i:i + size] for i in range(0, len(seq), size)] (lines 924-927, 914-915)
Chunks(seq, size) ==
  [k \in 1..((Len(seq) + size - 1) \div size) |->
     SubSeq(seq, (k - 1) * size + 1, Min(k * size, Len(seq)))]

\* a mutant of Fetchable: the status filter is lost
FetchableAnyStatus(rows) ==
  {i \in 1..Len(rows) : rows[i].attempts < MaxAttempts}

\* the rows of .eq('status', 'pending').lt('attempts', 3) (lines 899-901)
Fetchable(rows) ==
  {i \in 1..Len(rows) : rows[i].status = "pending" /\ rows[i].attempts < MaxAttempts}

\* lines 868-884: the batch row; an error of the insert ends the call
RunStart(o, bs, mp, mt) ==
  /\ OrchFree(o)
  /\ Len(batches) < MaxBatches
  /\ \/ /\ batches' = Append(batches, NewBatch)
        /\ orch' = [orch EXCEPT ![o] =
             [IdleOrch EXCEPT !.pc = "loop", !.batch_size = bs, !.max_parallel = mp,
                              !.max_tasks = mt, !.batch_id = Len(batches) + 1,
                              !.afterReset = (lost.stage = 2)]]
        /\ Succeeds
     \/ /\ orch' = [orch EXCEPT ![o] = [IdleOrch EXCEPT !.pc = "raised"]]
        /\ Raises
        /\ UNCHANGED batches
  /\ wrk' = [wrk EXCEPT ![o] = [k \in Slots |-> IdleWrk]]
  /\ UNCHANGED <<tasks, models_tbl, objects, pop, lastPop, lost>>
  /\ UNCHANGED single

\* lines 888-907: the top of the loop, to the fetch of the pending tasks
RunFetch(o) ==
  LET q == orch[o]
      remaining == q.max_tasks[1] - q.total_success - q.total_failed
      limit == IF Truthy(q.max_tasks) THEN Min(q.batch_size * q.max_parallel, remaining)
               ELSE q.batch_size * q.max_parallel
  IN
  /\ q.pc = "loop"
  /\ IF Truthy(q.max_tasks) /\ remaining <= 0
     THEN /\ orch' = [orch EXCEPT ![o] =
                        [q EXCEPT !.pc = "finish", !.exit = "cap",
                                  !.iteration = q.iteration + 1]]
          /\ Succeeds
     ELSE \/ \E S \in SUBSET Fetchable(tasks) :
               /\ Succeeds
               /\ Cardinality(S) = Min(limit, Cardinality(Fetchable(tasks)))
               /\ S # {} => q.iteration < rounds
               /\ orch' = [orch EXCEPT ![o] =
                    IF S = {}
                    THEN [q EXCEPT !.pc = "finish", !.exit = "exhausted",
                                   !.iteration = q.iteration + 1, !.tasks = <<>>]
                    ELSE [q EXCEPT !.pc = "dispatch", !.tasks = SortedSeq(S),
                                   !.iteration = q.iteration + 1]]
          \/ /\ orch' = [orch EXCEPT ![o] =
                           [q EXCEPT !.pc = "except", !.exit = "exception",
                                     !.iteration = q.iteration + 1]]
             /\ Raises
  /\ UNCHANGED <<tasks, models_tbl, batches, objects, pop, wrk, lastPop, lost>>
  /\ UNCHANGED single

\* lines 911-933: the batch_id of the fetched rows, chunk by chunk (an error
\* is printed and the loop goes on), the split, and the start of the map
RunDispatch(o) ==
  LET q == orch[o]
      chunks == Chunks(q.tasks, TagChunk)
      subs == Chunks(q.tasks, q.batch_size)
  IN
  /\ q.pc = "dispatch"
  /\ \E ok \in SUBSET (1..Len(chunks)) :
        /\ tasks' = [i \in 1..Len(tasks) |->
                       IF \E c \in ok : i \in Range(chunks[c])
                       THEN [tasks[i] EXCEPT !.batch_id = q.batch_id]
                       ELSE tasks[i]]
        /\ IF ok = 1..Len(chunks) THEN Succeeds ELSE Raises
  /\ wrk' = [wrk EXCEPT ![o] =
               [k \in Slots |-> IF k <= Len(subs) THEN StartWrk(subs[k], 0) ELSE IdleWrk]]
  /\ orch' = [orch EXCEPT ![o] =
                [q EXCEPT !.pc = "collect",
                          !.handed = q.handed \cup Range(q.tasks),
                          !.dispatched = q.dispatched + Len(q.tasks),
                          !.rehanded = q.rehanded \cup (q.handed \cap Range(q.tasks))]]
  /\ UNCHANGED <<models_tbl, batches, objects, pop, lastPop, lost>>
  /\ UNCHANGED single

\* an update of the counts that leaves total_tasks alone
BatchCountsNoTotal(row, ts, tf) ==
  [row EXCEPT !.completed_tasks = ts, !.failed_tasks = tf]

\* the update of lines 947-952
BatchCounts(row, ts, tf) ==
  [row EXCEPT !.completed_tasks = ts, !.failed_tasks = tf, !.total_tasks = ts + tf]

RECURSIVE SumOver(_, _)
SumOver(f, S) ==
  IF S = {} THEN 0
  ELSE LET x == CHOOSE y \in S : TRUE IN f[x] + SumOver(f, S \ {x})

\* lines 933-952: the results of the map, the totals and the batch row; a
\* failed input makes the map raise, as does an error of the update
RunCollect(o) ==
  LET q == orch[o]
      used == {k \in Slots : wrk[o][k].pc # "idle"}
      ts == q.total_success + SumOver([k \in Slots |-> wrk[o][k].success], used)
      tf == q.total_failed + SumOver([k \in Slots |-> wrk[o][k].failed], used)
  IN
  /\ q.pc = "collect"
  /\ \A k \in used : wrk[o][k].pc \in {"done", "failed"}
  /\ IF \E k \in used : wrk[o][k].pc = "failed"
     THEN /\ orch' = [orch EXCEPT ![o] = [q EXCEPT !.pc = "except", !.exit = "exception"]]
          /\ Succeeds
          /\ UNCHANGED batches
     ELSE \/ /\ batches' = [batches EXCEPT ![q.batch_id] = BatchCounts(@, ts, tf)]
             /\ orch' = [orch EXCEPT ![o] =
                           [q EXCEPT !.pc = "loop", !.total_success = ts,
                                     !.total_failed = tf]]
             /\ Succeeds
          \/ /\ orch' = [orch EXCEPT ![o] =
                           [q EXCEPT !.pc = "except", !.exit = "exception",
                                     !.total_success = ts, !.total_failed = tf]]
             /\ Raises
             /\ UNCHANGED batches
  /\ wrk' = [wrk EXCEPT ![o] = [k \in Slots |-> IdleWrk]]
  /\ UNCHANGED <<tasks, models_tbl, objects, pop, lastPop, lost>>
  /\ UNCHANGED single

\* a handler that marks the batch failed and leaves the counts alone
FailedBatchNoCounts(row, q) == [row EXCEPT !.status = "failed"]

\* the update of lines 959-963
FailedBatch(row, q) ==
  [row EXCEPT !.status = "failed", !.completed_tasks = q.total_success,
              !.failed_tasks = q.total_failed]

\* lines 957-964: the handler marks the batch failed and raises again; an
\* error of its update is raised in its place
RunExcept(o) ==
  LET q == orch[o] IN
  /\ q.pc = "except"
  /\ \/ /\ batches' = [batches EXCEPT ![q.batch_id] = FailedBatch(@, q)]
        /\ orch' = [orch EXCEPT ![o] = Ended(q, "raised", TRUE)]
        /\ Succeeds
     \/ /\ orch' = [orch EXCEPT ![o] = Ended(q, "raised", FALSE)]
        /\ Raises
        /\ UNCHANGED batches
  /\ UNCHANGED <<tasks, models_tbl, objects, pop, wrk, lastPop, lost>>
  /\ UNCHANGED single

\* lines 966-989: the batch is marked completed and the totals are returned;
\* an error of the update is outside the try and leaves the call
RunFinish(o) ==
  LET q == orch[o] IN
  /\ q.pc = "finish"
  /\ \/ /\ batches' = [batches EXCEPT ![q.batch_id] = [@ EXCEPT !.status = "completed"]]
        /\ orch' = [orch EXCEPT ![o] = Ended(q, "returned", TRUE)]
        /\ Succeeds
     \/ /\ orch' = [orch EXCEPT ![o] = Ended(q, "raised", FALSE)]
        /\ Raises
        /\ UNCHANGED batches
  /\ lost' = IF lost.stage = 2 /\ q.afterReset /\ q.exit = "exhausted"
             THEN [lost EXCEPT !.stage = 3, !.again = (lost.task \in q.handed)]
             ELSE lost
  /\ UNCHANGED <<tasks, models_tbl, objects, pop, wrk, lastPop>>
  /\ UNCHANGED single

(***************************************************************************)
(* generate_single_image: one request, from the body to the response.      *)
(***************************************************************************)
\* the request bodies: item.get('model') ... item.get('session_id') (lines 436-441)
Items ==
  [ model : {"", "lx1234"}, primary : {"navy_blue"}, accent : {"none"},
    leds : {"amber"}, width : {DefaultWidth}, session_id : {NULL, "s1"} ]

\* what the environment does to one request: create_client and the insert of
\* the progress row, the update_progress calls that reach the store (by step
\* number), head_object, the listing of the masks, the layers and the
\* composite, put_object, the update of the task rows, complete_progress
Envs ==
  [ client : BOOLEAN, insert : BOOLEAN, updates : SUBSET (1..7), head : BOOLEAN,
    sync : BOOLEAN, render : {"ok", "nolayers", "raise"}, put : BOOLEAN,
    task : BOOLEAN, complete : BOOLEAN ]

\* an environment without errors
CalmEnvs ==
  { [ client |-> TRUE, insert |-> TRUE, updates |-> 1..7, head |-> TRUE,
      sync |-> TRUE, render |-> "ok", put |-> TRUE, task |-> TRUE,
      complete |-> TRUE ] }

\* the environments without errors: the masks of the model are there, or none is
DemandEnvs ==
  CalmEnvs \cup {[env EXCEPT !.render = "nolayers"] : env \in CalmEnvs}

\* the calls that fail in an environment
EnvFaults(env) ==
  LET Bit(b) == IF b THEN 0 ELSE 1 IN
  Bit(env.client) + Bit(env.insert) + (7 - Cardinality(env.updates)) + Bit(env.head)
  + Bit(env.sync) + Bit(env.render # "raise") + Bit(env.put) + Bit(env.task)
  + Bit(env.complete)

\* the environments with few failing calls
SingleEnvs == {env \in Envs : EnvFaults(env) <= MaxEnvFaults}

\* the requests with their environments; a request without a model returns
\* at line 444, before any call that may fail
SingleInputs ==
  {x \in Items \X SingleEnvs : x[1].model = "" => x[2] \in CalmEnvs}

\* the percent of each update_progress call (lines 513, 528, 598, 604, 619, 642, 661)
Percent == <<10, 20, 30, 45, 60, 75, 90>>

\* result_url (line 510)
ResultUrl(s3_key) == <<"https://em-admin-assets.s3.us-east-1.amazonaws.com/">> \o s3_key

\* the progress row of lines 459-470
NewProgress(item) ==
  [ session_id |-> item.session_id, model |-> item.model, status |-> "running",
    step_number |-> 0, progress_percent |-> 0, result_url |-> NULL,
    error_message |-> NULL ]

\* update_progress (lines 475-486) for the steps 1..reached: the row holds
\* the last update that reached the store
UpdateProgress(row, reached, updates) ==
  LET done == updates \cap (1..reached) IN
  IF done = {} THEN row
  ELSE LET n == CHOOSE x \in done : \A y \in done : y <= x
       IN [row EXCEPT !.step_number = n, !.progress_percent = Percent[n]]

\* complete_progress (lines 488-506)
CompleteProgress(row, success, url, error) ==
  [row EXCEPT !.status = IF success THEN "completed" ELSE "error",
              !.step_number = IF success THEN 7 ELSE -1,
              !.progress_percent = IF success THEN 100 ELSE 0,
              !.result_url = IF url # NULL THEN url ELSE @,
              !.error_message = IF error # NULL THEN error ELSE @]

\* the update of lines 673-678: every row of the combination, whatever its status
SingleUpdate(rows, item, s3_key) ==
  [i \in 1..Len(rows) |->
     IF Combo(rows[i]) = <<item.model, item.primary, item.accent, item.leds>>
     THEN [rows[i] EXCEPT !.status = "completed", !.s3_key = s3_key]
     ELSE rows[i]]

\* a request that never probes the bucket
SinglePathNoProbe(item, env) ==
  IF item.model = "" THEN "nomodel"
  ELSE IF ~marker /\ ~env.sync THEN "sync raised"
  ELSE IF env.render = "nolayers" THEN "nolayers"
  ELSE IF env.render = "raise" THEN "render raised"
  ELSE IF ~env.put THEN "put raised"
  ELSE "generated"

\* a request that gives up when its progress row cannot be created
SinglePathStrict(item, env) ==
  IF item.model = "" THEN "nomodel"
  ELSE IF item.session_id # NULL /\ ~(env.client /\ env.insert) THEN "render raised"
  ELSE IF env.head /\ S3Key(item.model, item.primary, item.accent, item.leds)
                        \in DOMAIN objects THEN "cached"
  ELSE IF ~marker /\ ~env.sync THEN "sync raised"
  ELSE IF env.render = "nolayers" THEN "nolayers"
  ELSE IF env.render = "raise" THEN "render raised"
  ELSE IF ~env.put THEN "put raised"
  ELSE "generated"

\* how far the request gets: the early return without a model (line 443), the
\* cache hit (lines 514-523; any error of head_object counts as a miss), an
\* exception of the listing when the masks are not synced yet (lines 530-534),
\* no layers (line 632), an exception of the layers or of the composite, an
\* exception of put_object (line 662), or the image generated
SinglePath(item, env) ==
  IF item.model = "" THEN "nomodel"
  ELSE IF env.head /\ S3Key(item.model, item.primary, item.accent, item.leds)
                        \in DOMAIN objects THEN "cached"
  ELSE IF ~marker /\ ~env.sync THEN "sync raised"
  ELSE IF env.render = "nolayers" THEN "nolayers"
  ELSE IF env.render = "raise" THEN "render raised"
  ELSE IF ~env.put THEN "put raised"
  ELSE "generated"

\* what the caller gets: the dict of a return statement (lines 444, 517-523,
\* 634-639, 685-692), or the exception that left the function
SingleReply(path) ==
  CASE path = "nomodel" ->
         [kind |-> "error", exists |-> FALSE, error |-> "Model is required"]
    [] path = "cached" ->
         [kind |-> "success", exists |-> TRUE, error |-> NULL]
    [] path = "nolayers" ->
         [kind |-> "error", exists |-> FALSE, error |-> "No layers found for model"]
    [] path = "generated" ->
         [kind |-> "success", exists |-> FALSE, error |-> NULL]
    [] OTHER ->
         [kind |-> "exception", exists |-> FALSE, error |-> NULL]

\* the update_progress calls made on a path (lines 513, 528, 598-619, 642, 661)
Reached(path) ==
  CASE path = "cached" -> 1
    [] path = "sync raised" -> 2
    [] path = "nolayers" -> 5
    [] path = "render raised" -> 6
    [] OTHER -> 7

\* the progress row a request leaves behind: the updates of its path, then
\* complete_progress where the path calls it (lines 516, 633, 683)
SingleRow(item, env, path) ==
  LET stepped == UpdateProgress(NewProgress(item), Reached(path), env.updates)
      url     == ResultUrl(S3Key(item.model, item.primary, item.accent, item.leds))
  IN IF path \in {"cached", "generated"} /\ env.complete
     THEN CompleteProgress(stepped, TRUE, url, NULL)
     ELSE IF path = "nolayers" /\ env.complete
     THEN CompleteProgress(stepped, FALSE, NULL, "No layers found for model")
     ELSE stepped

\* the bucket after the request: put_object of lines 662-668
SingleObjects(item, path) ==
  IF path = "generated"
  THEN Put(objects, S3Key(item.model, item.primary, item.accent, item.leds),
           ImageBytes(item.model, item.primary, item.accent, item.leds, item.width))
  ELSE objects

\* the sync marker after the request: written at line 547, once the listing
\* of lines 534-546 is through
SingleMarker(path) ==
  marker \/ path \in {"nolayers", "render raised", "put raised", "generated"}

generate_single_image(item, env) ==
  LET s3_key   == S3Key(item.model, item.primary, item.accent, item.leds)
      path     == SinglePath(item, env)
      supabase == item.session_id # NULL /\ env.client
      tracked  == supabase /\ env.insert /\ path # "nomodel"
  IN
  /\ Len(reply) < requests
  /\ reply' = Append(reply, SingleReply(path))
  /\ progress' = IF tracked THEN Append(progress, SingleRow(item, env, path))
                 ELSE progress
  /\ objects' = SingleObjects(item, path)
  /\ marker' = SingleMarker(path)
  /\ tasks' = IF path = "generated" /\ supabase /\ env.task
              THEN SingleUpdate(tasks, item, s3_key)
              ELSE tasks
  /\ calls' = Append(calls, [item |-> item, env |-> env, path |-> path,
                             row |-> IF tracked THEN Len(progress) + 1 ELSE 0])
  /\ UNCHANGED <<models_tbl, batches, pop, orch, wrk, fn, budget, rounds, requests,
                 lastPop, lost>>

(***************************************************************************)
(* The initial state: empty tables, an empty bucket, nothing running.      *)
(***************************************************************************)
\* no pure function at work
NoCall == [op |-> "none", arg |-> NULL, prev |-> NULL, out |-> NULL]

Start(faults, most, asked) ==
  /\ tasks = <<>>
  /\ models_tbl = <<>>
  /\ batches = <<>>
  /\ objects = <<>>
  /\ pop = [p \in PopIds |-> IdlePop]
  /\ orch = [o \in OrchIds |-> IdleOrch]
  /\ wrk = [o \in OrchIds |-> [k \in Slots |-> IdleWrk]]
  /\ progress = <<>>
  /\ reply = <<>>
  /\ marker = FALSE
  /\ calls = <<>>
  /\ fn = NoCall
  /\ budget = faults
  /\ rounds = most
  /\ requests = asked
  /\ lastPop = [valid |-> FALSE, models |-> {}, lost |-> FALSE]
  /\ lost = [stage |-> 0, task |-> 0, again |-> FALSE]

Init == Start(MaxFaults, MaxRounds, 0)

(***************************************************************************)
(* SpecPop: populate_tasks runs, one at a time.                            *)
(***************************************************************************)
NextPop ==
  \/ \E ms \in ModelLists, rf \in BOOLEAN : PopStart(1, ms, rf)
  \/ PopReset(1)
  \/ PopFetchPage(1)
  \/ PopInsertChunk(1)
  \/ PopStats(1)

SpecPop == Init /\ [][NextPop]_vars

(***************************************************************************)
(* SpecPopTwo: two populate_tasks runs, started once each, that interleave *)
(* call by call.                                                           *)
(***************************************************************************)
NextPopTwo ==
  \E p \in PopIds :
     \/ \E ms \in ModelLists, rf \in BOOLEAN : pop[p].pc = "idle" /\ PopStart(p, ms, rf)
     \/ PopReset(p)
     \/ PopFetchPage(p)
     \/ PopInsertChunk(p)
     \/ PopStats(p)

SpecPopTwo == Init /\ [][NextPopTwo]_vars

(***************************************************************************)
(* Spec: populate + run cycles.  One populate_tasks or one                 *)
(* run_batch_processing invocation (with its workers) is active at a time. *)
(***************************************************************************)
Quiet == PopFree(1) /\ OrchFree(1)

Next ==
  \/ \E ms \in CycleLists, rf \in BOOLEAN : Quiet /\ PopStart(1, ms, rf)
  \/ PopReset(1)
  \/ PopFetchPage(1)
  \/ PopInsertChunk(1)
  \/ PopStats(1)
  \/ \E bs \in 1..MaxBatchSize, mp \in 1..MaxParallel, mt \in 0..MaxCap :
        Quiet /\ RunStart(1, bs, mp, Some(mt))
  \/ RunFetch(1)
  \/ RunDispatch(1)
  \/ RunCollect(1)
  \/ RunExcept(1)
  \/ RunFinish(1)
  \/ \E k \in Slots :
        \/ WMarkRead(1, k)
        \/ WMarkWrite(1, k)
        \/ WRender(1, k)
        \/ WPut(1, k)
        \/ WCompleted(1, k)
        \/ WFailed(1, k)
        \/ WDie(1, k)

Spec == Init /\ [][Next]_vars

(***************************************************************************)
(* SpecKill: the populate + run cycles again, with every run started as    *)
(* batch_size=1, max_parallel=1 and no task cap, and enough faults for one *)
(* worker input to be killed in its first invocation and in both retries.  *)
(***************************************************************************)
InitKill == Start(KillFaults, MaxRounds, 0)

NextKill ==
  \/ \E rf \in BOOLEAN : Quiet /\ PopStart(1, <<"lx1234">>, rf)
  \/ PopReset(1)
  \/ PopFetchPage(1)
  \/ PopInsertChunk(1)
  \/ PopStats(1)
  \/ Quiet /\ RunStart(1, 1, 1, None)
  \/ RunFetch(1)
  \/ RunDispatch(1)
  \/ RunCollect(1)
  \/ RunExcept(1)
  \/ RunFinish(1)
  \/ WMarkRead(1, 1)
  \/ WMarkWrite(1, 1)
  \/ WRender(1, 1)
  \/ WPut(1, 1)
  \/ WCompleted(1, 1)
  \/ WFailed(1, 1)
  \/ WDie(1, 1)

SpecKill == InitKill /\ [][NextKill]_vars

(***************************************************************************)
(* SpecConc: populate_tasks, then two run_batch_processing invocations at  *)
(* a time (batch_size=1, max_parallel=1, no task cap), each with its       *)
(* worker.                                                                 *)
(***************************************************************************)
InitConc == Start(ConcFaults, ConcRounds, 0)

NextConc ==
  \/ \E rf \in BOOLEAN :
        /\ batches = <<>>
        /\ \A o \in OrchIds : OrchFree(o)
        /\ PopStart(1, <<"lx1234">>, rf)
  \/ PopReset(1)
  \/ PopFetchPage(1)
  \/ PopInsertChunk(1)
  \/ PopStats(1)
  \/ \E o \in OrchIds :
        \/ PopFree(1) /\ RunStart(o, 1, 1, None)
        \/ RunFetch(o)
        \/ RunDispatch(o)
        \/ RunCollect(o)
        \/ RunExcept(o)
        \/ RunFinish(o)
        \/ WMarkRead(o, 1)
        \/ WMarkWrite(o, 1)
        \/ WRender(o, 1)
        \/ WPut(o, 1)
        \/ WCompleted(o, 1)
        \/ WFailed(o, 1)
        \/ WDie(o, 1)

SpecConc == InitConc /\ [][NextConc]_vars

(***************************************************************************)
(* SpecDemand: the populate + run cycles (max_parallel=1, no task cap)     *)
(* with requests to generate_single_image in between, for a model whose    *)
(* masks are there or are not.                                             *)
(***************************************************************************)
InitDemand == Start(DemandFaults, MaxRounds, MaxRequests)

NextDemand ==
  \/ \E rf \in BOOLEAN : Quiet /\ PopStart(1, <<"lx1234">>, rf)
  \/ PopReset(1)
  \/ PopFetchPage(1)
  \/ PopInsertChunk(1)
  \/ PopStats(1)
  \/ \E item \in Items, env \in DemandEnvs : PopFree(1) /\ generate_single_image(item, env)
  \/ \E bs \in 1..MaxBatchSize : Quiet /\ RunStart(1, bs, 1, None)
  \/ RunFetch(1)
  \/ RunDispatch(1)
  \/ RunCollect(1)
  \/ RunExcept(1)
  \/ RunFinish(1)
  \/ WMarkRead(1, 1)
  \/ WMarkWrite(1, 1)
  \/ WRender(1, 1)
  \/ WPut(1, 1)
  \/ WCompleted(1, 1)
  \/ WFailed(1, 1)
  \/ WDie(1, 1)

SpecDemand == InitDemand /\ [][NextDemand]_vars

(***************************************************************************)
(* Properties of populate_tasks (SpecPop).                                 *)
(***************************************************************************)
\* C1: after any sequence of populate_tasks runs executed one at a time, each
\* over distinct model ids, no two task rows share the identity (model,
\* primary_color, accent_color, led_color, width).
NoDuplicateIdentity ==
  \A i, j \in 1..Len(tasks) : Identity(tasks[i]) = Identity(tasks[j]) => i = j

\* a run found rows of earlier runs, skipped them and inserted others
SkippedAndInserted ==
  /\ pop[1].pc = "insert"
  /\ pop[1].existing # {}
  /\ pop[1].inserted > 0

\* the run follows a run that returned, over the same models, and has
\* computed what to insert
SecondRun ==
  /\ pop[1].pc = "insert"
  /\ pop[1].prev.valid
  /\ pop[1].prev.models = Range(pop[1].models)

InsertsNothing ==
  /\ pop[1].new_tasks = <<>>
  /\ pop[1].inserted = 0
  /\ Identities(tasks) = pop[1].before

FailedForGood(r) == r.status = "failed" /\ r.attempts >= MaxAttempts

\* C3: a task whose status is failed and whose attempts have reached 3 is
\* never set back to pending, is never fetched, and stays failed.
FailedForGoodStays ==
  [][\A i \in 1..Len(tasks) :
        FailedForGood(tasks[i]) => tasks'[i].status = "failed"]_vars

OrphanHandedAgain == lost.stage = 3 => lost.again

\* C8: process_batch goes through the tasks of its sub-batch in list order,
\* whatever fails, and returns with success + failed = n.
EveryTaskAttempted ==
  \A k \in Slots :
     LET w == wrk[1][k] IN
     /\ w.pc = "done" => w.success + w.failed = Len(w.tasks) /\ w.tried = w.tasks
     /\ Running(w) => /\ w.success + w.failed = w.idx - 1
                      /\ w.tried \in {SubSeq(w.tasks, 1, w.idx - 1),
                                      SubSeq(w.tasks, 1, w.idx)}

\* a sub-batch of two tasks has returned, both tasks failed
ReturnedAfterFailures ==
  \E k \in Slots :
     /\ wrk[1][k].pc = "done"
     /\ Len(wrk[1][k].tasks) = 2
     /\ wrk[1][k].failed = 2

BatchEnded(o) == orch[o].pc \in {"returned", "raised"} /\ orch[o].batch_id # 0

LegalStatusChanges ==
  [][\A i \in 1..Len(tasks) :
        \/ tasks'[i].status = tasks[i].status
        \/ /\ <<tasks[i].status, tasks'[i].status>>
                 \in {<<"pending", "processing">>, <<"processing", "completed">>,
                      <<"processing", "failed">>, <<"failed", "pending">>}
           /\ tasks[i].status = "failed" => tasks[i].attempts < MaxAttempts]_vars

\* C5: the attempts of every task are between 0 and 3, also with several
\* runs and their workers active at a time.
AttemptsBounded == \A i \in 1..Len(tasks) : tasks[i].attempts \in 0..MaxAttempts

\* C9: when the workers of two runs have both processed a task, fetched by
\* both runs as a fresh pending row, and no call has failed, the object is
\* the image of the task and the row is what one worker alone leaves:
\* completed, with the key of the object and one attempt.
RaceLikeOneWorker ==
  \A t \in 1..Len(tasks) :
     /\ budget = ConcFaults
     /\ \A o \in OrchIds : /\ orch[o].pc = "collect"
                            /\ orch[o].tasks = <<t>>
                            /\ wrk[o][1].pc = "done"
                            /\ wrk[o][1].success = 1
     => LET r == tasks[t]
            key == S3Key(r.model, r.primary_color, r.accent_color, r.led_color)
        IN /\ key \in DOMAIN objects
           /\ objects[key] = ImageBytes(r.model, r.primary_color, r.accent_color,
                                         r.led_color, r.width)
           /\ r.status = "completed"
           /\ r.s3_key = key
           /\ r.attempts = 1


(***************************************************************************)
(* The pure functions: normalize_model_name and the colorize of one pixel. *)
(***************************************************************************)
\* str.replace(old, new) with one replacement only
ReplaceFirst(s, old, new) ==
  IF \E i \in 1..(Len(s) - Len(old) + 1) : SubSeq(s, i, i + Len(old) - 1) = old
  THEN LET i == CHOOSE j \in 1..(Len(s) - Len(old) + 1) :
                  /\ SubSeq(s, j, j + Len(old) - 1) = old
                  /\ \A h \in 1..(j - 1) : SubSeq(s, h, h + Len(old) - 1) # old
       IN SubSeq(s, 1, i - 1) \o new \o SubSeq(s, i + Len(old), Len(s))
  ELSE s

\* str.replace(old, new): every occurrence, leftmost first, none overlapping
RECURSIVE Replace(_, _, _)
Replace(s, old, new) ==
  IF Len(s) < Len(old) THEN s
  ELSE IF SubSeq(s, 1, Len(old)) = old
       THEN new \o Replace(SubSeq(s, Len(old) + 1, Len(s)), old, new)
       ELSE <<s[1]>> \o Replace(Tail(s), old, new)

\* the four rules, each applied to its first occurrence only
normalize_model_name_once(model) ==
  ReplaceFirst(ReplaceFirst(ReplaceFirst(ReplaceFirst(model,
      <<"-", "f", "o", "u", "r", "f", "a", "c", "e">>, <<"-", "4">>),
      <<"l", "x", "2", "6", "6", "5", "b">>, <<"l", "x", "2", "6", "6", "5", "v">>),
      <<"l", "x", "2", "6", "5", "5", "b">>, <<"l", "x", "2", "6", "5", "5", "v">>),
      <<"l", "x", "2", "5", "4", "5", "b">>, <<"l", "x", "2", "5", "4", "5", "v">>)

normalize_model_name(model) ==
  Replace(Replace(Replace(Replace(model,
      <<"-", "f", "o", "u", "r", "f", "a", "c", "e">>, <<"-", "4">>),
      <<"l", "x", "2", "6", "6", "5", "b">>, <<"l", "x", "2", "6", "6", "5", "v">>),
      <<"l", "x", "2", "6", "5", "5", "b">>, <<"l", "x", "2", "6", "5", "5", "v">>),
      <<"l", "x", "2", "5", "4", "5", "b">>, <<"l", "x", "2", "5", "4", "5", "v">>)

\* the colour table (lines 31-53)
COLORS ==
  [ navy_blue |-> <<16, 43, 78>>,
    egyptian_blue |-> <<35, 60, 136>>,
    royal_blue |-> <<36, 98, 167>>,
    icy_blue |-> <<117, 190, 233>>,
    shamrock_green |-> <<0, 159, 72>>,
    jolly_green |-> <<0, 114, 59>>,
    hunter_green |-> <<14, 69, 42>>,
    silver_gray |-> <<201, 199, 199>>,
    matte_black |-> <<45, 42, 43>>,
    white |-> <<255, 255, 255>>,
    indigo_purple |-> <<94, 46, 134>>,
    power_purple |-> <<104, 28, 91>>,
    merchant_maroon |-> <<116, 17, 46>>,
    cardinal_red |-> <<182, 31, 61>>,
    racing_red |-> <<227, 50, 38>>,
    tiger_orange |-> <<244, 121, 32>>,
    golden_yellow |-> <<255, 212, 0>>,
    metallic_gold |-> <<180, 151, 90>>,
    red |-> <<236, 27, 36>>,
    amber |-> <<249, 165, 25>>,
    none |-> <<255, 255, 255>> ]

\* the largest value of a channel (np.clip(..., 0, 255), uint8)
MaxChannel == 255

\* COLORS.get(color_name, (255, 255, 255))
Rgb(color_name) ==
  IF color_name \in DOMAIN COLORS THEN COLORS[color_name]
  ELSE <<MaxChannel, MaxChannel, MaxChannel>>

\* np.clip(x, lo, hi)
Clip(x, lo, hi) == IF x < lo THEN lo ELSE IF x > hi THEN hi ELSE x

\* ImageOps.invert of a pixel of an L image
Invert(c) == MaxChannel - c

\* a colorize that wraps around in place of clamping
colorize_image_wrap(c, color_name, negate) ==
  LET p == IF negate THEN Invert(c) ELSE c
  IN [ch \in 1..3 |-> (p + Rgb(color_name)[ch]) % (MaxChannel + 1)]

\* colorize_image for one pixel, from its luminance after the contrast
\* (lines 219-232): the three channels of the result
colorize_image(c, color_name, negate) ==
  LET p == IF negate THEN Invert(c) ELSE c
  IN [ch \in 1..3 |->
        Clip(p + Rgb(color_name)[ch], 0, MaxChannel) % (MaxChannel + 1)]

\* the model ids is_multicolor_led is called with: a body in some case, with
\* something before and after
LedInputs ==
  {pre \o body \o post :
     pre \in {<<>>, <<"8", "3", "5", "0", "-">>},
     body \in {<<"l", "x", "2", "1", "2", "0">>, <<"L", "X", "2", "1", "2", "0">>, <<"L", "x", "2", "1", "2", "0">>, <<"l", "X", "2", "1", "2", "0">>, <<"l", "x", "2", "1", "2", "1">>, <<"l", "x", "2", "1", "2">>, <<"l", "x", "2", "6", "6", "5">>, <<"L", "X", "8", "4", "4", "0">>, <<"1", "2", "3", "4">>},
     post \in {<<>>, <<"b">>, <<"-", "2", "6", "6", "5">>, <<"V">>}}

\* the names normalize_model_name is called with: up to three pieces
Pieces ==
  {<<>>, <<"-", "f", "o", "u", "r", "f", "a", "c", "e">>,
   <<"-", "f", "o", "u", "r">>,
   <<"f", "a", "c", "e">>,
   <<"-", "4">>,
   <<"l", "x", "2", "6", "6", "5", "b">>,
   <<"l", "x", "2", "6", "5", "5", "b">>,
   <<"l", "x", "2", "5", "4", "5", "b">>,
   <<"l", "x", "2", "5">>,
   <<"l", "x", "2", "6">>,
   <<"6", "5", "b">>,
   <<"5", "b">>,
   <<"b">>,
   <<"-">>}

NameInputs == {a \o b \o c : a \in Pieces, b \in Pieces, c \in Pieces}

\* the colour names of the colorize: those of the table, and one that is not
ColorNames == DOMAIN COLORS \cup {"teal"}

CallMulticolor ==
  /\ fn = NoCall
  /\ \E m \in LedInputs :
        fn' = [op |-> "is_multicolor_led", arg |-> m, prev |-> NULL,
               out |-> is_multicolor_led(m)]
  /\ UNCHANGED <<tasks, models_tbl, batches, objects, pop, orch, wrk, progress, reply,
                 marker, calls, budget, rounds, requests, lastPop, lost>>

CallNormalize ==
  /\ fn = NoCall
  /\ \E s \in NameInputs :
        fn' = [op |-> "normalize_model_name", arg |-> s, prev |-> NULL,
               out |-> normalize_model_name(s)]
  /\ UNCHANGED <<tasks, models_tbl, batches, objects, pop, orch, wrk, progress, reply,
                 marker, calls, budget, rounds, requests, lastPop, lost>>

\* normalize_model_name of a name that came out of normalize_model_name
CallNormalizeAgain ==
  /\ fn.op = "normalize_model_name"
  /\ fn' = [op |-> "normalize_model_name twice", arg |-> fn.arg, prev |-> fn.out,
            out |-> normalize_model_name(fn.out)]
  /\ UNCHANGED <<tasks, models_tbl, batches, objects, pop, orch, wrk, progress, reply,
                 marker, calls, budget, rounds, requests, lastPop, lost>>

\* the identities of a render: those of the task rows, and those of the
\* requests for another width
RenderIdentities ==
  {<<m, UI_COLORS[p], ACCENT_COLORS[a], LED_COLORS[l], w>> :
     m \in Models, p \in 1..Len(UI_COLORS), a \in 1..Len(ACCENT_COLORS),
     l \in 1..Len(LED_COLORS), w \in {DefaultWidth, OtherWidth}}

\* the key of a render (lines 381 and 509)
CallKey ==
  /\ fn = NoCall
  /\ \E id \in RenderIdentities :
        fn' = [op |-> "s3_key", arg |-> id, prev |-> NULL,
               out |-> S3Key(id[1], id[2], id[3], id[4])]
  /\ UNCHANGED <<tasks, models_tbl, batches, objects, pop, orch, wrk, progress, reply,
                 marker, calls, budget, rounds, requests, lastPop, lost>>

\* the key of another render
CallKeyAgain ==
  /\ fn.op = "s3_key"
  /\ \E id \in RenderIdentities :
        fn' = [op |-> "s3_key twice", arg |-> <<fn.arg, id>>, prev |-> fn.out,
               out |-> S3Key(id[1], id[2], id[3], id[4])]
  /\ UNCHANGED <<tasks, models_tbl, batches, objects, pop, orch, wrk, progress, reply,
                 marker, calls, budget, rounds, requests, lastPop, lost>>

\* the split of a round (lines 924-927) for the rows a fetch can return: at
\* most batch_size * max_parallel of them (lines 894, 903), here by their ids
CallSplit ==
  /\ fn = NoCall
  /\ \E bs \in 1..MaxSplit, mp \in 1..MaxSplit :
       \E n \in 0..(bs * mp) :
          LET fetched == [i \in 1..n |-> i]
          IN fn' = [op |-> "split", arg |-> <<fetched, bs, mp>>, prev |-> NULL,
                    out |-> Chunks(fetched, bs)]
  /\ UNCHANGED <<tasks, models_tbl, batches, objects, pop, orch, wrk, progress, reply,
                 marker, calls, budget, rounds, requests, lastPop, lost>>

CallColorize ==
  /\ fn = NoCall
  /\ \E c \in 0..MaxChannel, color_name \in ColorNames, negate \in BOOLEAN :
        fn' = [op |-> "colorize_image", arg |-> <<c, color_name, negate>>,
               prev |-> NULL, out |-> colorize_image(c, color_name, negate)]
  /\ UNCHANGED <<tasks, models_tbl, batches, objects, pop, orch, wrk, progress, reply,
                 marker, calls, budget, rounds, requests, lastPop, lost>>

(***************************************************************************)
(* SpecFun: the pure functions, each called with each of its inputs.       *)
(***************************************************************************)
(***************************************************************************)
(* The layers of a render.  A mask set gives, for each layer name, the     *)
(* size of the mask on the volume, or None where get_mask finds no file.   *)
(* An image is known by the mask it was loaded from, its size and the      *)
(* colour it was colorized with (colorized FALSE: convert('RGBA') only);   *)
(* its pixels are left out.                                                *)
(***************************************************************************)
LayerNames == {"Frame", "Face", "Accent-Striping", "Masks", "LED-Glow", "Captions"}

MaskSizes == {<<DefaultWidth, OtherWidth>>, <<OtherWidth, OtherWidth>>}

MaskSets == [LayerNames -> MaskSizes \cup {None}]

\* get_mask (lines 166-186, 554-566): the image of the file, or None
get_mask(masks, layer) ==
  IF masks[layer] = None THEN None
  ELSE Some([mask |-> layer, size |-> masks[layer], colorized |-> FALSE,
             color |-> NULL, negate |-> FALSE])

\* img.convert('RGBA')
Converted(img) == img

\* colorize_image / colorize as far as the layer goes: the colour name and
\* the negate flag it was called with (the pixels are colorize_image above)
Colorized(img, color_name, negate) ==
  [img EXCEPT !.colorized = TRUE, !.color = color_name, !.negate = negate]

\* a mutant of AccentColor: the accent as given
AccentColorAsGiven(primary, accent) == accent

\* lines 254 and 552
AccentColor(primary, accent) ==
  IF accent \in {"none", "n/a"} THEN primary ELSE accent

\* a mutant of LedLayer: the LED layer is colorized for every model
LedLayerColorized(model, led_layer, leds) == Colorized(led_layer, leds, TRUE)

\* lines 280-285 and 620-625
LedLayer(model, led_layer, leds) ==
  IF is_multicolor_led(Chars(model)) THEN Converted(led_layer)
  ELSE Colorized(led_layer, leds, TRUE)

\* lines 256-290: the list of (name, image) pairs, in the order of the appends
NamedLayers(model, primary, accent, leds, masks) ==
  LET accent_color == AccentColor(primary, accent)
      frame        == get_mask(masks, "Frame")
      face         == get_mask(masks, "Face")
      accent_layer == get_mask(masks, "Accent-Striping")
      msk          == get_mask(masks, "Masks")
      led_layer    == get_mask(masks, "LED-Glow")
      captions     == get_mask(masks, "Captions")
  IN (IF frame # None THEN <<<<"Frame", Converted(frame[1])>>>> ELSE <<>>)
     \o (IF face # None
         THEN <<<<"Face", Colorized(face[1], primary, TRUE)>>>> ELSE <<>>)
     \o (IF accent_layer # None
         THEN <<<<"Accent-Striping", Colorized(accent_layer[1], accent_color, TRUE)>>>>
         ELSE <<>>)
     \o (IF msk # None THEN <<<<"Masks", Converted(msk[1])>>>> ELSE <<>>)
     \o (IF led_layer # None
         THEN <<<<"LED-Glow", LedLayer(model, led_layer[1], leds)>>>> ELSE <<>>)
     \o (IF captions # None
         THEN <<<<"Captions", Colorized(captions[1], "white", TRUE)>>>> ELSE <<>>)

\* lines 595-630: the list of images of the on-demand path
SingleLayers(model, primary, accent, leds, masks) ==
  LET accent_color == AccentColor(primary, accent)
      frame        == get_mask(masks, "Frame")
      face         == get_mask(masks, "Face")
      accent_layer == get_mask(masks, "Accent-Striping")
      msk          == get_mask(masks, "Masks")
      led_layer    == get_mask(masks, "LED-Glow")
      captions     == get_mask(masks, "Captions")
  IN (IF frame # None THEN <<Converted(frame[1])>> ELSE <<>>)
     \o (IF face # None THEN <<Colorized(face[1], primary, TRUE)>> ELSE <<>>)
     \o (IF accent_layer # None
         THEN <<Colorized(accent_layer[1], accent_color, TRUE)>> ELSE <<>>)
     \o (IF msk # None THEN <<Converted(msk[1])>> ELSE <<>>)
     \o (IF led_layer # None THEN <<LedLayer(model, led_layer[1], leds)>> ELSE <<>>)
     \o (IF captions # None THEN <<Colorized(captions[1], "white", TRUE)>> ELSE <<>>)

\* lines 295-306 and 641-652: a transparent canvas of the size of the first
\* layer, each layer resized to it and laid over the result so far, and the
\* result resized to the width asked for (its height is left out)
Composite(images, width) ==
  [ canvas |-> images[1].size, background |-> "transparent",
    stack  |-> [i \in 1..Len(images) |-> [images[i] EXCEPT !.size = images[1].size]],
    width  |-> IF width # 0 /\ width # images[1].size[1]
               THEN width ELSE images[1].size[1] ]

\* lines 240-311: None without layers, the PNG of the composite otherwise
generate_image(model, primary, accent, leds, width, masks) ==
  LET layers == NamedLayers(model, primary, accent, leds, masks) IN
  IF layers = <<>> THEN None
  ELSE Some(Composite([i \in 1..Len(layers) |-> layers[i][2]], width))

\* lines 550-658: the render of generate_single_image
SingleImage(model, primary, accent, leds, width, masks) ==
  LET layers == SingleLayers(model, primary, accent, leds, masks) IN
  IF layers = <<>> THEN None ELSE Some(Composite(layers, width))

\* the renders called: a model of each LED kind and the override, an accent
\* of each kind
RenderModels == {"lx1234", "lx2665", "lx2120"}

RenderInputs ==
  [ model : RenderModels, primary : {"navy_blue"}, accent : {"none", "n/a", "amber"},
    leds : {"amber", "red"}, width : {DefaultWidth}, masks : MaskSets ]

CallGenerate ==
  /\ fn = NoCall
  /\ \E a \in RenderInputs :
        fn' = [op |-> "generate_image", arg |-> a, prev |-> NULL,
               out |-> generate_image(a.model, a.primary, a.accent, a.leds,
                                      a.width, a.masks)]
  /\ UNCHANGED <<tasks, models_tbl, batches, objects, pop, orch, wrk, progress, reply,
                 marker, calls, budget, rounds, requests, lastPop, lost>>

CallSingleImage ==
  /\ fn = NoCall
  /\ \E a \in RenderInputs :
        fn' = [op |-> "single_image", arg |-> a, prev |-> NULL,
               out |-> SingleImage(a.model, a.primary, a.accent, a.leds,
                                   a.width, a.masks)]
  /\ UNCHANGED <<tasks, models_tbl, batches, objects, pop, orch, wrk, progress, reply,
                 marker, calls, budget, rounds, requests, lastPop, lost>>

(***************************************************************************)
(* The mask cache on the volume: for each directory under /cache/masks and *)
(* each layer name, the size of the PNG there, Corrupt for a file that     *)
(* Image.open cannot read, or None where there is no file.                 *)
(***************************************************************************)
Corrupt == <<"corrupt">>

UpperChar(c) ==
  CASE c = "l" -> "L" [] c = "x" -> "X" [] c = "b" -> "B" [] c = "v" -> "V"
    [] OTHER -> c

\* str.upper()
Upper(s) == [i \in 1..Len(s) |-> UpperChar(s[i])]

\* the model ids looked up: one that normalize_model_name rewrites, one in
\* mixed case, one that is normalized and in lower case as it is
PathModels == {"lx2665b", "Lx1234", "lx1234"}

\* the directories a lookup of the model may name
DirsOf(model) ==
  LET n == normalize_model_name(model)
  IN {n, Lower(n), Upper(n), model, Lower(model), Upper(model)}

\* what a directory may hold
DirContents ==
  { [l \in LayerNames |-> None],
    [l \in LayerNames |-> <<DefaultWidth, OtherWidth>>],
    [l \in LayerNames |-> IF l = "Frame" THEN Corrupt ELSE <<OtherWidth, OtherWidth>>],
    [l \in LayerNames |-> IF l \in {"LED-Glow", "Captions"}
                          THEN <<DefaultWidth, OtherWidth>> ELSE None] }

Caches(model) == [DirsOf(model) -> DirContents]

\* os.path.exists(path)
Exists(cache, path) ==
  path.dir \in DOMAIN cache /\ cache[path.dir][path.layer] # None

\* Image.open(path) returns
Opens(cache, path) == cache[path.dir][path.layer] # Corrupt

\* lines 178-186 and 560-566: the first path that exists and opens
RECURSIVE FirstMask(_, _)
FirstMask(cache, paths) ==
  IF paths = <<>> THEN None
  ELSE IF Exists(cache, paths[1]) /\ Opens(cache, paths[1])
       THEN Some([path |-> paths[1], size |-> cache[paths[1].dir][paths[1].layer]])
       ELSE FirstMask(cache, Tail(paths))

\* lines 168-176: paths_to_try of ImageGenerator.get_mask
MaskPaths(model, layer) ==
  LET model_normalized == normalize_model_name(model)
  IN << [dir |-> model_normalized, layer |-> layer],
        [dir |-> Lower(model_normalized), layer |-> layer],
        [dir |-> Upper(model_normalized), layer |-> layer],
        [dir |-> model, layer |-> layer] >>

\* a mutant of SinglePaths: the upper-case candidate is left out
SinglePathsTwo(m, layer) ==
  << [dir |-> m, layer |-> layer], [dir |-> Lower(m), layer |-> layer] >>

\* lines 555-559: paths of the get_mask of generate_single_image
SinglePaths(m, layer) ==
  << [dir |-> m, layer |-> layer],
     [dir |-> Lower(m), layer |-> layer],
     [dir |-> Upper(m), layer |-> layer] >>

\* lines 166-186: ImageGenerator.get_mask over the files of the volume
get_mask_file(cache, model, layer) == FirstMask(cache, MaskPaths(model, layer))

\* lines 554-566: the get_mask of generate_single_image
single_get_mask(cache, m, layer) == FirstMask(cache, SinglePaths(m, layer))

\* lines 250 and 257-286: generate_image hands get_mask the normalized id
RenderMask(cache, model, layer) ==
  get_mask_file(cache, normalize_model_name(model), layer)

\* lines 551 and 597-626: so does generate_single_image
SingleRenderMask(cache, model, layer) ==
  single_get_mask(cache, normalize_model_name(model), layer)

SizeOf(found) == IF found = None THEN None ELSE found[1].size

\* the masks generate_image renders with
CacheMasks(cache, model) ==
  [l \in LayerNames |-> SizeOf(RenderMask(cache, model, l))]

\* the masks generate_single_image renders with
SingleCacheMasks(cache, model) ==
  [l \in LayerNames |-> SizeOf(SingleRenderMask(cache, model, l))]

\* one lookup of a render of the batch path
CallRenderMask ==
  /\ fn = NoCall
  /\ \E model \in PathModels, l \in LayerNames :
       \E cache \in Caches(Chars(model)) :
          fn' = [op |-> "get_mask", arg |-> [model |-> model, layer |-> l, cache |-> cache],
                 prev |-> NULL, out |-> RenderMask(cache, Chars(model), l)]
  /\ UNCHANGED <<tasks, models_tbl, batches, objects, pop, orch, wrk, progress, reply,
                 marker, calls, budget, rounds, requests, lastPop, lost>>

(***************************************************************************)
(* The two render paths side by side: the mask file of each layer, the     *)
(* list of layer images, the composite and the key of the object.          *)
(***************************************************************************)
Images(layers) == [i \in 1..Len(layers) |-> layers[i][2]]

\* process_batch -> generate_image (lines 370-381, 240-311)
BatchRender(model, primary, accent, leds, width, cache) ==
  LET masks == CacheMasks(cache, Chars(model)) IN
  [ files  |-> [l \in LayerNames |-> RenderMask(cache, Chars(model), l)],
    layers |-> Images(NamedLayers(model, primary, accent, leds, masks)),
    image  |-> generate_image(model, primary, accent, leds, width, masks),
    key    |-> S3Key(model, primary, accent, leds) ]

\* generate_single_image past its probe (lines 509, 550-658)
SingleRender(model, primary, accent, leds, width, cache) ==
  LET masks == SingleCacheMasks(cache, Chars(model)) IN
  [ files  |-> [l \in LayerNames |-> SingleRenderMask(cache, Chars(model), l)],
    layers |-> SingleLayers(model, primary, accent, leds, masks),
    image  |-> SingleImage(model, primary, accent, leds, width, masks),
    key    |-> S3Key(model, primary, accent, leds) ]

BothModels == PathModels \cup {"lx2120", "lx2665"}

\* one combination rendered by the batch path (prev) and on demand (out)
CallBoth ==
  /\ fn = NoCall
  /\ \E model \in BothModels, accent \in {"none", "amber"},
        leds \in {"amber", "red"}, width \in {DefaultWidth, OtherWidth} :
       \E cache \in Caches(Chars(model)) :
          fn' = [op |-> "both_paths",
                 arg |-> [model |-> model, primary |-> "navy_blue", accent |-> accent,
                          leds |-> leds, width |-> width, cache |-> cache],
                 prev |-> Some(BatchRender(model, "navy_blue", accent, leds, width, cache)),
                 out |-> Some(SingleRender(model, "navy_blue", accent, leds, width, cache))]
  /\ UNCHANGED <<tasks, models_tbl, batches, objects, pop, orch, wrk, progress, reply,
                 marker, calls, budget, rounds, requests, lastPop, lost>>

InitFun == Start(0, 0, 0)

NextFun ==
  \/ CallMulticolor
  \/ CallNormalize
  \/ CallNormalizeAgain
  \/ CallColorize
  \/ CallKey
  \/ CallKeyAgain
  \/ CallSplit
  \/ CallGenerate
  \/ CallSingleImage
  \/ CallRenderMask
  \/ CallBoth

SpecFun == InitFun /\ [][NextFun]_vars

(***************************************************************************)
(* SpecLive: populate_tasks, then run_batch_processing with nothing else   *)
(* running; the store fails status writes of the workers only, LiveFaults  *)
(* times at most.  The steps of the run and of its workers are taken       *)
(* whenever they stay possible (the orchestrator and the containers run    *)
(* until they return).                                                     *)
(***************************************************************************)
LiveFaults == 2
LiveRounds == 4

InitLive == Start(LiveFaults, LiveRounds, 0)

NoFault == budget' = budget

PopLive ==
  \/ \E rf \in BOOLEAN : Quiet /\ PopStart(1, <<"lx1234">>, rf)
  \/ PopReset(1) /\ NoFault
  \/ PopFetchPage(1) /\ NoFault
  \/ PopInsertChunk(1) /\ NoFault
  \/ PopStats(1) /\ NoFault

RunLive ==
  \/ \E bs \in 1..MaxBatchSize, mp \in 1..MaxParallel, mt \in {None, Some(1)} :
        Quiet /\ tasks # <<>> /\ RunStart(1, bs, mp, mt) /\ NoFault
  \/ RunFetch(1) /\ NoFault
  \/ RunDispatch(1) /\ NoFault
  \/ RunCollect(1) /\ NoFault
  \/ RunFinish(1) /\ NoFault
  \/ \E k \in Slots :
        \/ WMarkRead(1, k)
        \/ WMarkWrite(1, k)
        \/ WRender(1, k)
        \/ WPut(1, k)
        \/ WCompleted(1, k)
        \/ WFailed(1, k)

NextLive == PopLive \/ RunLive

SpecLive == InitLive /\ [][NextLive]_vars /\ WF_vars(RunLive)

(***************************************************************************)
(* The sync of the masks to the volume (_sync_masks, and the same lines in *)
(* generate_single_image).  The volume holds the marker and the files; a   *)
(* sync is given what the bucket lists under masks/ and how each           *)
(* get_object ends.  SpecSync: up to SyncCalls syncs on one volume.        *)
(***************************************************************************)
SyncCalls == 2

MaskKeys == <<"masks/lx1234/Frame.png", "masks/lx1234/Face.png">>

\* list_objects_v2 returns the keys in order: the listings are the
\* subsequences of MaskKeys
Listings ==
  {<<>>, <<MaskKeys[1]>>, <<MaskKeys[2]>>, MaskKeys}

\* how the download of a key ends: the file is written; get_object raises
\* and no file is made; the read of the body raises after open() has made
\* the file
GetOutcomes == {"written", "get_raises", "read_raises"}

EmptyVolume == [marker |-> FALSE, files |-> <<>>]

\* lines 149-160: one key of the listing
SyncKey(st, key, outcome) ==
  IF key \in DOMAIN st.files THEN st
  ELSE [ files |-> CASE outcome = "written" -> Put(st.files, key, "whole")
                     [] outcome = "read_raises" -> Put(st.files, key, "empty")
                     [] OTHER -> st.files,
         gets  |-> st.gets \cup {key} ]

RECURSIVE SyncKeys(_, _, _)
SyncKeys(st, keys, outcomes) ==
  IF keys = <<>> THEN st
  ELSE SyncKeys(SyncKey(st, keys[1], outcomes[keys[1]]), Tail(keys), outcomes)

\* lines 137-164 (and 529-548): nothing with the marker there; else the
\* listing, the downloads of the keys not yet on the volume (an error is
\* printed and the loop goes on), and the marker.  An error of the listing
\* is not caught.
SyncMasks(vol, listing, outcomes, list_ok) ==
  IF vol.marker
  THEN [vol |-> vol, lists |-> 0, gets |-> {}, listed |-> {}, raised |-> FALSE]
  ELSE IF ~list_ok
  THEN [vol |-> vol, lists |-> 1, gets |-> {}, listed |-> {}, raised |-> TRUE]
  ELSE LET st == SyncKeys([files |-> vol.files, gets |-> {}], listing, outcomes)
       IN [ vol    |-> [marker |-> TRUE, files |-> st.files],
            lists  |-> 1, gets |-> st.gets, listed |-> Range(listing),
            raised |-> FALSE ]

SyncOps == {"_sync_masks", "single_sync"}

\* the call of a sync on the volume as the syncs before left it; `seen` is
\* every key a sync that wrote the marker was listed
SyncCall(op, vol, seen, n) ==
  \E listing \in Listings, outcomes \in [Range(MaskKeys) -> GetOutcomes],
     list_ok \in BOOLEAN :
     LET r == SyncMasks(vol, listing, outcomes, list_ok) IN
     fn' = [op |-> op, arg |-> [listing |-> listing, outcomes |-> outcomes,
                                 list_ok |-> list_ok],
            prev |-> Some(vol),
            out |-> Some([r EXCEPT !.listed = seen \cup r.listed] @@ [n |-> n])]

\* setup() of a container (line 135)
CallSync ==
  /\ \/ fn.op = "none" /\ SyncCall("_sync_masks", EmptyVolume, {}, 1)
     \/ /\ fn.op \in SyncOps
        /\ fn.out[1].n < SyncCalls
        /\ SyncCall("_sync_masks", fn.out[1].vol, fn.out[1].listed, fn.out[1].n + 1)
  /\ UNCHANGED <<tasks, models_tbl, batches, objects, pop, orch, wrk, progress, reply,
                 marker, calls, budget, rounds, requests, lastPop, lost>>

\* step 2 of generate_single_image (lines 527-548)
CallSingleSync ==
  /\ \/ fn.op = "none" /\ SyncCall("single_sync", EmptyVolume, {}, 1)
     \/ /\ fn.op \in SyncOps
        /\ fn.out[1].n < SyncCalls
        /\ SyncCall("single_sync", fn.out[1].vol, fn.out[1].listed, fn.out[1].n + 1)
  /\ UNCHANGED <<tasks, models_tbl, batches, objects, pop, orch, wrk, progress, reply,
                 marker, calls, budget, rounds, requests, lastPop, lost>>

InitSync == Start(0, 0, 0)

NextSync == CallSync \/ CallSingleSync

SpecSync == InitSync /\ [][NextSync]_vars

(***************************************************************************)
(* SpecSingle: populate_tasks without faults, and then requests to         *)
(* generate_single_image, each in an environment of its own.               *)
(***************************************************************************)
InitSingle == Start(0, 0, SingleRequests)

NextSingle ==
  \/ \E rf \in BOOLEAN : PopFree(1) /\ tasks = <<>> /\ PopStart(1, <<"lx1234">>, rf)
  \/ PopReset(1)
  \/ PopFetchPage(1)
  \/ PopInsertChunk(1)
  \/ PopStats(1)
  \/ \E x \in SingleInputs :
        PopFree(1) /\ tasks # <<>> /\ generate_single_image(x[1], x[2])

SpecSingle == InitSingle /\ [][NextSingle]_vars

(***************************************************************************)
(* C11.  The failure handler of run_batch_processing.                      *)
(***************************************************************************)
HandlerStep == orch[1].pc = "except" /\ orch'[1].pc # "except"

\* C11: in every step of the failure handler no task row and no object
\* changes, no batch row but the run's own changes, and the call ends with
\* an exception; the run's batch row becomes failed with completed_tasks and
\* failed_tasks the totals accumulated so far (and is left as it was only
\* when the store refuses the handler's update)
FailureHandlerWritesBatchOnly ==
  [][HandlerStep =>
       LET q == orch[1]
           b == q.batch_id
       IN /\ tasks' = tasks
          /\ objects' = objects
          /\ orch'[1].pc = "raised"
          /\ Len(batches') = Len(batches)
          /\ \A i \in 1..Len(batches) : i # b => batches'[i] = batches[i]
          /\ \/ batches'[b] = batches[b] /\ ~orch'[1].closed
             \/ /\ orch'[1].closed
                /\ batches'[b].status = "failed"
                /\ batches'[b].completed_tasks = q.total_success
                /\ batches'[b].failed_tasks = q.total_failed
                /\ batches'[b].total_tasks = batches[b].total_tasks]_vars

\* the handler has marked failed a batch whose counts the loop had not
\* written, with a task completed by a worker still completed
HandlerAfterRecordedWork ==
  /\ orch[1].pc = "raised" /\ orch[1].exit = "exception" /\ orch[1].closed
  /\ batches[orch[1].batch_id].status = "failed"
  /\ batches[orch[1].batch_id].completed_tasks > 0
  /\ batches[orch[1].batch_id].total_tasks = 0
  /\ \E i \in 1..Len(tasks) : tasks[i].status = "completed"

(***************************************************************************)
(* C12.  The task cap of run_batch_processing.                             *)
(***************************************************************************)
Capped(o) == orch[o].pc \notin {"idle", "returned", "raised"} /\ orch[o].max_tasks # None

\* C12 as stated: a run given a task cap (any integer >= 0) hands out no
\* more tasks than the cap, and counts no more successes and failures
TaskCapRespected ==
  Capped(1) =>
    /\ Cardinality(orch[1].handed) <= orch[1].max_tasks[1]
    /\ orch[1].total_success + orch[1].total_failed <= orch[1].max_tasks[1]

\* the same for the caps that `if max_tasks:` takes as a cap (max_tasks >= 1)
PositiveCapRespected ==
  Capped(1) /\ Truthy(orch[1].max_tasks) =>
    /\ Cardinality(orch[1].handed) + Cardinality(orch[1].rehanded) <= orch[1].max_tasks[1]
    /\ orch[1].total_success + orch[1].total_failed <= orch[1].max_tasks[1]

\* a run with a cap of one has stopped at the cap with a task still pending
StoppedAtCap ==
  /\ orch[1].pc = "finish" /\ orch[1].exit = "cap" /\ orch[1].max_tasks = Some(1)
  /\ orch[1].total_success + orch[1].total_failed = 1
  /\ Fetchable(tasks) # {}

(***************************************************************************)
(* C13 - C16.  generate_single_image.                                      *)
(***************************************************************************)
Last(s) == s[Len(s)]

\* a step that is one call of generate_single_image
RequestStep == Len(calls') = Len(calls) + 1

\* every write of the progress record reaches the store
ProgressWritten(env) ==
  env.client /\ env.insert /\ env.updates = 1..7 /\ env.complete

\* C13 as stated, for the requests whose progress writes all reach the
\* store: a request with a progress record leaves it completed or error
ProgressEndsTerminal ==
  \A i \in 1..Len(calls) :
     calls[i].row # 0 /\ ProgressWritten(calls[i].env)
       => progress[calls[i].row].status \in {"completed", "error"}

\* the ways of ending that do leave the record terminal: the cache hit, the
\* image generated, no layers
ReturnsEndTerminal ==
  \A i \in 1..Len(calls) :
     /\ calls[i].row # 0 /\ calls[i].env.complete
     /\ reply[i].kind \in {"success", "error"}
     => progress[calls[i].row].status \in {"completed", "error"}

\* C14 as stated: every call of generate_single_image gives back a payload
AlwaysPayload == \A i \in 1..Len(reply) : reply[i].kind \in {"success", "error"}

\* head_object finds the output key of the request (line 515)
ProbeSucceeds(c) ==
  /\ c.item.model # ""
  /\ c.env.head
  /\ S3Key(c.item.model, c.item.primary, c.item.accent, c.item.leds) \in DOMAIN objects

\* C15: a request whose existence probe succeeds answers success with
\* exists = true, leaves the bucket, the task rows and the sync marker as
\* they were, and its progress record, when it has one and the store takes
\* the completion, is completed at 100 percent with the url
CacheHitShortCircuit ==
  [][RequestStep /\ ProbeSucceeds(Last(calls')) =>
       LET c == Last(calls') IN
       /\ Last(reply') = [kind |-> "success", exists |-> TRUE, error |-> NULL]
       /\ objects' = objects
       /\ tasks' = tasks
       /\ marker' = marker
       /\ IF c.row = 0 THEN progress' = progress
          ELSE /\ progress' = Append(progress, progress'[c.row])
               /\ c.env.complete =>
                    /\ progress'[c.row].status = "completed"
                    /\ progress'[c.row].progress_percent = 100
                    /\ progress'[c.row].result_url # NULL]_vars

\* a cache hit on an image whose task row is still pending, with a progress
\* record completed
CacheHitOverPendingTask ==
  /\ Len(calls) = 2
  /\ calls[2].path = "cached" /\ calls[2].row # 0
  /\ progress[calls[2].row].status = "completed"
  /\ reply[2].exists
  /\ \E i \in 1..Len(tasks) :
        /\ Combo(tasks[i]) = <<calls[2].item.model, calls[2].item.primary,
                                calls[2].item.accent, calls[2].item.leds>>
        /\ tasks[i].status = "pending"

\* the environment with every write of the progress record reaching the store
CalmProgress(env) ==
  [env EXCEPT !.client = TRUE, !.insert = TRUE, !.updates = 1..7, !.complete = TRUE]

\* C16: whatever writes of the progress record fail, the reply and the
\* bucket after the request are those of the same request with every
\* progress write succeeding
ProgressFailuresHarmless ==
  [][RequestStep =>
       LET c == Last(calls')
           calm == SinglePath(c.item, CalmProgress(c.env))
       IN /\ Last(reply') = SingleReply(calm)
          /\ objects' = SingleObjects(c.item, calm)]_vars

\* an image generated and answered although the progress row could not be
\* created, and another although an update and the completion were refused
GeneratedDespiteProgressFailures ==
  \E i \in 1..Len(calls) :
     /\ calls[i].item.session_id # NULL
     /\ \/ ~calls[i].env.insert
        \/ ~calls[i].env.complete /\ calls[i].env.updates # 1..7
     /\ calls[i].path = "generated"
     /\ reply[i].kind = "success"
     /\ S3Key(calls[i].item.model, calls[i].item.primary, calls[i].item.accent,
              calls[i].item.leds) \in DOMAIN objects

(***************************************************************************)
(* C17.  No layer resolves.                                                *)
(***************************************************************************)
NoLayers == "No layers found for model"

\* generate_image has returned None for the task of the worker
WorkerFindsNoLayers ==
  /\ wrk[1][1].pc = "render"
  /\ wrk'[1][1].pc = "fail" /\ wrk'[1][1].error = NoLayers

\* the worker ends the pass of a task without layers
WorkerEndsNoLayersPass ==
  /\ wrk[1][1].pc = "fail" /\ wrk[1][1].error = NoLayers
  /\ wrk'[1][1].idx = wrk[1][1].idx + 1

\* a request that gets to the layers and finds none
RequestFindsNoLayers ==
  /\ RequestStep
  /\ LET c == Last(calls') IN
     /\ c.item.model # ""
     /\ ~ProbeSucceeds(c)
     /\ marker \/ c.env.sync
     /\ c.env.render = "nolayers"

\* C17: a worker whose task has no layers puts no object, writes the row
\* failed with the no-layers message and the attempts as they are (so that
\* populate_tasks resets it while attempts < 3; the row is left alone only
\* when the store refuses the write), counts one failure and goes on to the
\* next task or returns; a request that finds no layers answers
\* success: false with the message and puts no object
NoLayersIsAFailure ==
  [][/\ WorkerFindsNoLayers => objects' = objects /\ tasks' = tasks
     /\ WorkerEndsNoLayersPass =>
          LET w  == wrk[1][1]
              id == w.tasks[w.idx]
          IN /\ objects' = objects
             /\ wrk'[1][1].failed = w.failed + 1
             /\ wrk'[1][1].success = w.success
             /\ wrk'[1][1].pc = IF w.idx < Len(w.tasks) THEN "mark_read" ELSE "done"
             /\ \A i \in 1..Len(tasks) : i # id => tasks'[i] = tasks[i]
             /\ \/ budget' = budget - 1 /\ tasks' = tasks
                \/ /\ budget' = budget
                   /\ tasks'[id].status = "failed"
                   /\ tasks'[id].error_message = NoLayers
                   /\ tasks'[id].attempts = tasks[id].attempts
                   /\ tasks'[id].attempts < MaxAttempts
                        => ResetFailed(tasks')[id].status = "pending"
     /\ RequestFindsNoLayers =>
          /\ Last(reply') = [kind |-> "error", exists |-> FALSE, error |-> NoLayers]
          /\ objects' = objects
          /\ tasks' = tasks]_vars

\* a worker has failed the first task of two for want of layers and is at
\* the second, and a request has been answered with the no-layers error
NoLayersBothWays ==
  /\ wrk[1][1].pc = "mark_read" /\ wrk[1][1].idx = 2 /\ wrk[1][1].failed = 1
  /\ LET t == tasks[wrk[1][1].tasks[1]]
     IN t.status = "failed" /\ t.error_message = NoLayers /\ t.attempts < MaxAttempts
  /\ objects = <<>>
  /\ \E i \in 1..Len(reply) : reply[i].kind = "error" /\ reply[i].error = NoLayers

(***************************************************************************)
(* C18 - C20.  The pure functions.                                         *)
(***************************************************************************)
\* the model id holds a token of FORCE_SINGLE_COLOR_LED, in any case
HasOverrideToken(model_id) ==
  \E k \in 1..Len(FORCE_SINGLE_COLOR_LED) :
     Contains(Lower(model_id), Lower(FORCE_SINGLE_COLOR_LED[k]))

\* C18: is_multicolor_led is false for every model id that holds an override
\* token in any case, whatever pattern of MULTICOLOR_LEDS it matches
OverrideWins ==
  fn.op = "is_multicolor_led" /\ HasOverrideToken(fn.arg) => fn.out = FALSE

\* the call for an id with the override token in capitals and the literal
\* pattern 2665 behind it
OverrideOverPatterns ==
  /\ fn.op = "is_multicolor_led"
  /\ Contains(fn.arg, <<"L", "X", "2", "1", "2", "0">>)
  /\ Contains(fn.arg, <<"2", "6", "6", "5">>)
  /\ fn.out = FALSE

\* C19: normalize_model_name of a name that normalize_model_name gave back
\* is that name
NormalizeIdempotent ==
  fn.op = "normalize_model_name twice" => fn.out = fn.prev

\* the second call for a name in which two rules applied
NormalizedTwice ==
  /\ fn.op = "normalize_model_name twice"
  /\ Contains(fn.arg, <<"-", "f", "o", "u", "r", "f", "a", "c", "e">>)
  /\ Contains(fn.arg, <<"l", "x", "2", "5", "4", "5", "b">>)
  /\ fn.prev # fn.arg
  /\ fn.out = fn.prev

\* C20: each channel of a colorized pixel is min(255, p + k), with k the
\* channel of the colour (255 for a name that is not in the table) and p the
\* luminance after the contrast, taken from 255 when negate is set
AdditiveClamp ==
  fn.op = "colorize_image" =>
    LET c          == fn.arg[1]
        color_name == fn.arg[2]
        negate     == fn.arg[3]
        p == IF negate THEN 255 - c ELSE c
        k == IF color_name \in DOMAIN COLORS THEN COLORS[color_name] ELSE <<255, 255, 255>>
    IN \A ch \in 1..3 : fn.out[ch] = Min(255, p + k[ch])

\* a pixel whose sum is clamped on one channel and not on another, and a
\* pixel of a colour that is not in the table
ClampedAndNot ==
  /\ fn.op = "colorize_image"
  /\ \/ /\ fn.arg[2] = "navy_blue" /\ fn.arg[3]
        /\ fn.out[1] < 255 /\ fn.out[3] = 255
        /\ 255 - fn.arg[1] + COLORS.navy_blue[3] > 255
     \/ fn.arg[2] = "teal" /\ fn.out = <<255, 255, 255>>

(***************************************************************************)
(* C21.  The object key.                                                   *)
(***************************************************************************)
\* C21 as stated: two renders whose identities (model, primary, accent, led,
\* width) differ have different keys
KeyInjective ==
  fn.op = "s3_key twice" /\ fn.arg[1] # fn.arg[2] => fn.prev # fn.out

\* the same for the four components the key is made of
KeyInjectiveOnCombo ==
  fn.op = "s3_key twice"
    /\ SubSeq(fn.arg[1], 1, 4) # SubSeq(fn.arg[2], 1, 4) => fn.prev # fn.out

(***************************************************************************)
(* C22.  Two populate_tasks runs at a time.                                *)
(***************************************************************************)
\* C22 as stated: with two populate_tasks runs interleaved, no two task rows
\* have the same (model, primary_color, accent_color, led_color)
OneRowPerCombo ==
  \A i, j \in 1..Len(tasks) : Combo(tasks[i]) = Combo(tasks[j]) => i = j

(***************************************************************************)
(* C23.  The attempts counter.                                             *)
(***************************************************************************)
\* the write of update_task_status(task_id, 'processing') reaches the store
MarkWriteStep(o, k) ==
  /\ wrk[o][k].pc = "mark_write" /\ wrk'[o][k].pc = "render"
  /\ budget' = budget

\* C23 as stated: every mark-processing that reaches the store raises the
\* attempts of its task by exactly one, whatever other workers do
MarkCountsOne ==
  [][\A o \in OrchIds, k \in Slots :
        MarkWriteStep(o, k) =>
          LET id == wrk[o][k].tasks[wrk[o][k].idx]
          IN tasks'[id].attempts = tasks[id].attempts + 1]_vars

(***************************************************************************)
(* C24.  Completed rows and their objects.                                 *)
(***************************************************************************)
\* C24: every task row with status completed has the key of its
\* combination recorded, and the bucket holds an object under that key
CompletedHasObject ==
  \A i \in 1..Len(tasks) :
     tasks[i].status = "completed" =>
       /\ tasks[i].s3_key # NULL
       /\ tasks[i].s3_key = S3Key(tasks[i].model, tasks[i].primary_color,
                                  tasks[i].accent_color, tasks[i].led_color)
       /\ tasks[i].s3_key \in DOMAIN objects

\* one row completed by a worker and counted by its run, the other by the
\* task update of a request that generated the image
CompletedBothWays ==
  /\ Len(tasks) = 2
  /\ \A i \in 1..Len(tasks) : tasks[i].status = "completed"
  /\ Len(batches) = 1 /\ batches[1].completed_tasks = 1
  /\ Len(calls) = 1 /\ calls[1].path = "generated"
  /\ calls[1].item.session_id # NULL

(***************************************************************************)
(* C25.  The split of a dispatch round.                                    *)
(***************************************************************************)
RECURSIVE Flatten(_)
Flatten(seqs) == IF seqs = <<>> THEN <<>> ELSE Head(seqs) \o Flatten(Tail(seqs))

\* C25: the sub-batches of a round, one after the other, are the fetched
\* tasks in their order; each has between 1 and batch_size tasks; there are
\* at most max_parallel of them
SplitIsPartition ==
  fn.op = "split" =>
    LET fetched == fn.arg[1]
        bs      == fn.arg[2]
        mp      == fn.arg[3]
        subs    == fn.out
    IN /\ Flatten(subs) = fetched
       /\ \A k \in 1..Len(subs) : Len(subs[k]) \in 1..bs
       /\ Len(subs) <= mp

\* a split into full sub-batches and a shorter last one, as many as max_parallel
ShortLastSubBatch ==
  /\ fn.op = "split"
  /\ fn.arg[2] = 2 /\ fn.arg[3] = 3 /\ Len(fn.arg[1]) = 5
  /\ fn.out = << <<1, 2>>, <<3, 4>>, <<5>> >>

\* the same in the runs: the sub-batches handed to the workers of a round
RoundIsPartition ==
  orch[1].pc = "collect" =>
    LET used == {k \in Slots : wrk[1][k].pc # "idle"}
    IN /\ used = 1..Cardinality(used)
       /\ Cardinality(used) <= orch[1].max_parallel
       /\ Flatten([k \in 1..Cardinality(used) |-> wrk[1][k].tasks]) = orch[1].tasks
       /\ \A k \in used : Len(wrk[1][k].tasks) \in 1..orch[1].batch_size

(***************************************************************************)
(* C26.  The counts of the batch row.                                      *)
(***************************************************************************)
\* a dispatch round is through: its results are in and its update is written
RoundCompletes == orch[1].pc = "collect" /\ orch'[1].pc = "loop"

\* C26: when a dispatch round is through, the batch row of the run has
\* total_tasks = completed_tasks + failed_tasks = the number of tasks the run
\* has dispatched so far, and none of the three counts is below what it was
BatchCountsAddUp ==
  [][RoundCompletes =>
       LET b   == orch[1].batch_id
           row == batches'[b]
       IN /\ row.total_tasks = row.completed_tasks + row.failed_tasks
          /\ row.total_tasks = orch[1].dispatched
          /\ row.completed_tasks >= batches[b].completed_tasks
          /\ row.failed_tasks >= batches[b].failed_tasks
          /\ row.total_tasks >= batches[b].total_tasks]_vars

\* the second round of a run is through, with a success and a failure counted
TwoRoundsCounted ==
  /\ orch[1].pc = "loop" /\ orch[1].iteration = 2
  /\ batches[orch[1].batch_id].total_tasks = 2
  /\ batches[orch[1].batch_id].completed_tasks = 1
  /\ batches[orch[1].batch_id].failed_tasks = 1

(***************************************************************************)
(* The reset of populate_tasks (Spec).                                     *)
(***************************************************************************)
ResetStep == pop[1].pc = "reset" /\ pop'[1].pc = "fetch"

Resettable(r) == r.status = "failed" /\ r.attempts < MaxAttempts

\* C27: the reset of populate_tasks changes exactly the rows whose status is
\* failed and whose attempts are below 3: they become pending with the error
\* message cleared and attempts unchanged; every other row, and the number
\* of rows, is left as it was.
ResetFrame ==
  [][ResetStep =>
       /\ Len(tasks') = Len(tasks)
       /\ \A i \in 1..Len(tasks) :
            IF Resettable(tasks[i])
            THEN /\ tasks'[i].status = "pending"
                 /\ tasks'[i].error_message = NULL
                 /\ tasks'[i].attempts = tasks[i].attempts
                 /\ [tasks'[i] EXCEPT !.status = "failed",
                                      !.error_message = tasks[i].error_message]
                      = tasks[i]
            ELSE tasks'[i] = tasks[i]]_vars

\* a reset has just put a failed row back to pending, with its attempts kept,
\* next to a row that stays failed with three attempts
ResetSparesFailedForGood ==
  /\ pop[1].pc = "fetch" /\ pop[1].reset_failed /\ pop[1].offset = 0
  /\ \E i \in 1..Len(tasks) :
        /\ tasks[i].status = "pending" /\ tasks[i].attempts >= 1
        /\ tasks[i].error_message = NULL
  /\ \E i \in 1..Len(tasks) :
        tasks[i].status = "failed" /\ tasks[i].attempts >= MaxAttempts

(***************************************************************************)
(* The pattern scan of is_multicolor_led (SpecFun).                        *)
(***************************************************************************)
IsWildcard(pattern) == \E j \in 1..Len(pattern) : pattern[j] = "*"

\* what the pattern list says about an id when case is ignored throughout
MatchesAnyCase(model_id) ==
  \E k \in 1..Len(MULTICOLOR_LEDS) :
     LET pattern == MULTICOLOR_LEDS[k] IN
     IF IsWildcard(pattern)
     THEN StarSearch(pattern, model_id)
     ELSE Contains(Lower(model_id), Lower(pattern))

\* C28: for a model id with no override token, is_multicolor_led is true
\* exactly when a literal pattern occurs in the id whatever the case, or the
\* prefix of a wildcard pattern occurs whatever the case with at least one
\* more character after it.
PatternsIgnoreCase ==
  (fn.op = "is_multicolor_led" /\ ~HasOverrideToken(fn.arg))
     => (fn.out <=> MatchesAnyCase(fn.arg))

(***************************************************************************)
(* The layer stack of a render (SpecFun).                                  *)
(***************************************************************************)
LayerOrder == <<"Frame", "Face", "Accent-Striping", "Masks", "LED-Glow", "Captions">>

Resolves(masks, layer) == masks[layer] # None

ResolvedInOrder(masks) ==
  LET Test(layer) == Resolves(masks, layer) IN SelectSeq(LayerOrder, Test)

Generated == fn.op = "generate_image"

\* C29: generate_image lays exactly the layers that resolve, in the order
\* Frame, Face, Accent-Striping, Masks, LED-Glow, Captions, over a
\* transparent canvas of the size of the first of them; a layer that does
\* not resolve is left out and the call still returns an image; Face takes
\* the primary colour and Accent-Striping the accent colour, or the primary
\* colour when the accent is none or n/a.
LayerStackInOrder ==
  (Generated /\ ResolvedInOrder(fn.arg.masks) # <<>>) =>
     LET a     == fn.arg
         names == ResolvedInOrder(a.masks)
     IN /\ fn.out # None
        /\ fn.out[1].background = "transparent"
        /\ fn.out[1].canvas = a.masks[names[1]]
        /\ Len(fn.out[1].stack) = Len(names)
        /\ \A i \in 1..Len(names) :
              LET img == fn.out[1].stack[i] IN
              /\ img.mask = names[i]
              /\ img.mask = "Face" => img.colorized /\ img.color = a.primary
              /\ img.mask = "Accent-Striping" =>
                    /\ img.colorized
                    /\ a.accent \in {"none", "n/a"} => img.color = a.primary
                    /\ a.accent \notin {"none", "n/a"} => img.color = a.accent

\* a render without a Frame and without Masks, with accent n/a: the canvas
\* has the size of the Face mask, which is not the size of the layers above it
StackWithoutFrame ==
  /\ Generated
  /\ fn.arg.accent = "n/a"
  /\ ~Resolves(fn.arg.masks, "Frame") /\ ~Resolves(fn.arg.masks, "Masks")
  /\ fn.arg.masks["Face"] = <<OtherWidth, OtherWidth>>
  /\ fn.arg.masks["Accent-Striping"] = <<DefaultWidth, OtherWidth>>
  /\ fn.arg.masks["Captions"] = <<DefaultWidth, OtherWidth>>
  /\ fn.out # None
  /\ fn.out[1].canvas = <<OtherWidth, OtherWidth>>
  /\ Len(fn.out[1].stack) >= 3

(***************************************************************************)
(* The LED layer of a render, in both render paths (SpecFun).              *)
(***************************************************************************)
Rendered == fn.op \in {"generate_image", "single_image"}

LedImages(stack) == {i \in 1..Len(stack) : stack[i].mask = "LED-Glow"}

\* C30: in generate_image and in generate_single_image the LED-Glow layer is
\* colorized with the LED colour asked for exactly when is_multicolor_led of
\* the model is false, and laid as it is exactly when it is true; the layer
\* of lx2120 is colorized although the id matches lx2*.
LedLayerPolicy ==
  (Rendered /\ Resolves(fn.arg.masks, "LED-Glow")) =>
     /\ fn.out # None
     /\ Cardinality(LedImages(fn.out[1].stack)) = 1
     /\ \A i \in LedImages(fn.out[1].stack) :
           LET img == fn.out[1].stack[i] IN
           /\ img.colorized <=> ~is_multicolor_led(Chars(fn.arg.model))
           /\ img.colorized => img.color = fn.arg.leds /\ img.negate
           /\ ~img.colorized => img.color = NULL
           /\ fn.arg.model = "lx2120" => img.colorized /\ img.color = fn.arg.leds
           /\ fn.arg.model = "lx2665" => ~img.colorized

\* the on-demand path has rendered lx2120, whose id matches lx2*, with its
\* LED layer colorized
OverrideLedColorized ==
  /\ fn.op = "single_image"
  /\ fn.arg.model = "lx2120"
  /\ StarSearch(<<"l", "x", "2", "*">>, Chars(fn.arg.model))
  /\ Resolves(fn.arg.masks, "LED-Glow")
  /\ fn.out # None
  /\ \E i \in LedImages(fn.out[1].stack) :
        fn.out[1].stack[i].colorized /\ fn.out[1].stack[i].color = "red"

(***************************************************************************)
(* The order of the mask lookup of a render (SpecFun).                     *)
(***************************************************************************)
\* the candidates of the lookup for a task of model id m, in order:
\* normalized, normalized lower case, normalized upper case, the id as given
CandidateDirs(m) ==
  LET n == normalize_model_name(m) IN <<n, Lower(n), Upper(n), m>>

Usable(cache, dir, layer) ==
  /\ dir \in DOMAIN cache
  /\ cache[dir][layer] # None
  /\ cache[dir][layer] # Corrupt

\* C31: when a task of model id M is rendered, the mask of a layer is the
\* first of the normalized id, the normalized id in lower case, the
\* normalized id in upper case and the id M as given under which a file
\* exists and decodes; with no such file the layer is absent.
MaskOrderWithRawId ==
  fn.op = "get_mask" =>
     LET a    == fn.arg
         dirs == CandidateDirs(Chars(a.model))
         good == {i \in 1..Len(dirs) : Usable(a.cache, dirs[i], a.layer)}
     IN IF good = {} THEN fn.out = None
        ELSE /\ fn.out # None
             /\ \E i \in good :
                   /\ \A j \in good : i <= j
                   /\ fn.out[1].path.dir = dirs[i]
                   /\ fn.out[1].path.layer = a.layer

(***************************************************************************)
(* The batch path and the on-demand path (SpecFun).                        *)
(***************************************************************************)
\* C32: for every model id, colours, width and content of the mask cache,
\* generate_image and generate_single_image find the same mask file for
\* each layer, build the same list of layers in the same order with the
\* same colour each, and name the same object key.
PathsEquivalent ==
  fn.op = "both_paths" =>
     /\ \A l \in LayerNames : fn.prev[1].files[l] = fn.out[1].files[l]
     /\ fn.prev[1].layers = fn.out[1].layers
     /\ fn.prev[1].image = fn.out[1].image
     /\ fn.prev[1].key = fn.out[1].key

\* both paths have rendered lx2665b from masks found under the normalized id
\* in upper case only, next to unused masks under the id as given
BothFromUpperCase ==
  /\ fn.op = "both_paths"
  /\ fn.arg.model = "lx2665b"
  /\ fn.arg.cache[Chars("lx2665b")]["Face"] # None
  /\ fn.out[1].image # None
  /\ Len(fn.out[1].layers) >= 5
  /\ fn.prev[1].files["Face"] # None
  /\ fn.out[1].files["Face"] # None
  /\ fn.out[1].files["Face"][1].path.dir = Upper(normalize_model_name(Chars("lx2665b")))

(***************************************************************************)
(* Termination of the dispatch loop (SpecLive).                            *)
(***************************************************************************)
InRun == ~OrchFree(1)

Finalized ==
  /\ orch[1].pc = "returned"
  /\ orch[1].exit \in {"exhausted", "cap"}
  /\ batches[orch[1].batch_id].status = "completed"

Synced == fn.op \in SyncOps

\* C34: whenever the marker exists, every key that the sync was listed under
\* masks/ is a file of the cache; and a sync that finds the marker makes no
\* list and no get call and leaves the cache as it is.
MarkerMeansComplete ==
  Synced =>
     /\ fn.out[1].vol.marker =>
           \A k \in fn.out[1].listed : k \in DOMAIN fn.out[1].vol.files
     /\ fn.prev[1].marker =>
           /\ fn.out[1].lists = 0
           /\ fn.out[1].gets = {}
           /\ fn.out[1].vol = fn.prev[1]

====
